---------------------------- MODULE Spec2Model ----------------------------
(***************************************************************************)
(* A model of the PoolMind arbitrage decision pipeline                     *)
(* (src/poolmind/agent/src/poolmind_agent/core): the execution optimizer,  *)
(* the risk assessor, the opportunity detector and the workflow graph.     *)
(*                                                                         *)
(* Python floats are modelled as exact rationals [n |-> num, d |-> den]    *)
(* in lowest terms with d > 0; rounding of IEEE doubles is not modelled.   *)
(***************************************************************************)
EXTENDS Integers, Sequences, FiniteSets, TLC

VARIABLES
    \* ---- _calculate_slippage_from_orders harness
    slip_orders,        \* orders: list of {price, amount}
    slip_size,          \* position_size
    slip_result,        \* the returned slippage, or NoValue before the call
    slip_pc,
    \* ---- ExecutionOptimizer.optimize
    opt_config,         \* self.config of the optimizer: what it has as exchange_fees and exchange_gas_costs
    opt_pool_state,     \* pool_state argument
    opt_strategies,     \* strategies argument, each tagged with id = its input position
    sorted_strategies,  \* the local of the same name
    opt_idx,            \* position of the for-loop in sorted_strategies
    available_capital,
    remaining_capital,
    execution_plans,
    optimized_plans,    \* the value optimize returns
    assigned,           \* history: the position_size computed at each loop iteration
    opt_pc,
    \* ---- _combine_plans harness
    comb_plans,         \* plans argument
    comb_result,        \* the returned plan, or NoValue before the call
    comb_pc,
    \* ---- ExecutionOptimizer.execute: one _execute_plan task per plan
    exec_config,        \* self.config of the optimizer
    exec_read,          \* history, per task: self.config as the task read it at
                        \* its fee lines, NoValue while it has not
    exec_finished,      \* history: the tasks in the order they returned
    exec_plans,         \* execution_plans argument
    exec_pc,            \* per task: "start", "buy" / "sell" (awaiting execute_order), "done"
    exec_orders,        \* per task: the execute_order calls it has made, in order
    exec_buy_result,    \* per task: what the buy execute_order answered
    exec_sell_result,   \* per task: what the sell execute_order answered
    exec_task_result,   \* per task: the value _execute_plan returned (NoValue for None)
    execution_results,  \* the value execute returns
    exec_main_pc,
    \* ---- RiskAssessor.assess_strategy
    risk_config,        \* self.config: the config attributes the assessor reads
    risk_read,          \* history: self.config as the call read it, NoValue before
    risk_pool_state,    \* pool_state argument
    risk_strategy,      \* strategy argument
    risk_llm_response,  \* what llm_service.assess_risk answered, NoValue before
    risk_assessment,    \* the returned assessment, NoValue before
    risk_pc,
    \* ---- StrategyGenerator.detect_opportunities
    det_threshold,      \* config.min_profit_threshold; Missing when self.config is a dictionary
    det_fees,           \* config.exchange_fees; Missing when self.config is a dictionary
    det_exchange_data,  \* market_data["exchange_data"]: (exchange, {pair: price}) in dict order
    det_opportunities,  \* the returned list, empty before
    det_pc,
    \* ---- PoolMindAgent workflow graph
    agent_state,        \* the AgentState dict handed from node to node
    graph_nodes,        \* the nodes triggered for the current step that have not returned
    graph_step,         \* the current step: what the nodes that have returned leave
    graph_cycle,        \* history: the nodes run since the last entry of observe, and
                        \* the state the last of them returned
    \* ---- ArbitrageMonitor.run_continuous
    running,            \* self.running
    last_check_time,    \* self.last_check_time: 0, or 1 once a check has been made
    monitor_pc,         \* where run_continuous stands
    mon_config,         \* self.config of the monitor, the AgentConfig it shares with the agent
    mon_opportunities,  \* the list check_arbitrage_opportunities returned
    mon_idx,            \* position of the for loop in it
    mon_cycle,          \* history: cycles in flight, reflect and stop seen
    cycle_pc,           \* where run_full_cycle stands
    cycle_locals,       \* the local variables of run_full_cycle
    cycle_result,       \* what run_full_cycle gave its caller
    ras_config,         \* self.config of the RiskAssessor
    ras_pool_state,     \* pool_state given to assess_strategies
    ras_strategies,     \* strategies given to assess_strategies
    ras_tasks,          \* what each assess_strategy task returned, NoValue before it ran
    ras_read,           \* history: self.config as each task read it, NoValue before it ran
    ras_result,         \* what assess_strategies returned, <<>> before it does
    ras_pc,             \* where assess_strategies stands
    grp_plans,          \* execution_plans given to _group_similar_executions
    grp_result,         \* the list it returned
    grp_pc,             \* call or done
    gen_config,         \* self.config of the StrategyGenerator
    gen_pool_state,     \* pool_state given to generate_strategy
    gen_opportunities,  \* opportunities given to generate_strategy
    gen_fallback,       \* the fallback system: inactive, active, or expired (until has passed)
    gen_idx,            \* position of the for loop over the opportunities
    gen_strategies,     \* the strategies list being built
    gen_result,         \* what generate_strategy returned
    gen_pc,             \* where generate_strategy stands
    refl_config,        \* self.config of the ReflectionEngine
    refl_reflection,    \* the reflection the last reflect returned
    refl_count,         \* reflect calls made so far
    life_agent,         \* the fields of the PoolMindAgent object
    life_clock,         \* what time.time() returns now
    life_last,          \* the last call and how it ended, with the start_time of the initialize before it
    life_calls,         \* calls made so far
    ord_call,           \* the arguments of the execute_order call
    ord_elapsed,        \* whole seconds gone since the call began
    ord_result,         \* what execute_order returned
    ord_pc,             \* where the call is
    fb_config,          \* the config of a StrategyGenerator called again and again
    fb_active,          \* _fallback_active
    fb_until,           \* _fallback_until, in clock ticks
    fb_clock,           \* datetime.now(), in clock ticks
    fb_calls,           \* the generate_strategy calls suspended in their loop
    fb_log,             \* one entry per generate_strategy call that has ended
    flow_in,            \* arguments of poolmind_arbitrage_flow and the pool state it read
    flow_pc,            \* position of the flow
    flow_attempt,       \* attempts made in the retry loop the flow is in
    flow_locals,        \* best_opportunity, risk_data, required_amount, fund_request_success, approved_amount
    flow_calls,         \* the calls the flow has made on its collaborators, in order
    rl_exchange,        \* the exchange whose requests are limited
    rl_clock,           \* time.time(), in ticks
    rl_last_request,    \* exchange_clients[exchange]["last_request"]
    rl_pc,              \* caller -> idle, sleeping
    rl_wake,            \* caller -> the time its asyncio.sleep is over
    rl_seen,            \* caller -> the last_request its call read
    rl_released         \* the calls that returned: caller, seen, at

slipVars == <<slip_orders, slip_size, slip_result, slip_pc>>
optVars == <<opt_config, opt_pool_state, opt_strategies, sorted_strategies, opt_idx,
             available_capital, remaining_capital, execution_plans, optimized_plans,
             assigned, opt_pc>>

combVars == <<comb_plans, comb_result, comb_pc>>

execVars == <<exec_config, exec_read, exec_finished, exec_plans, exec_pc, exec_orders, exec_buy_result, exec_sell_result,
              exec_task_result, execution_results, exec_main_pc>>

riskVars == <<risk_config, risk_read, risk_pool_state, risk_strategy, risk_llm_response,
              risk_assessment, risk_pc>>

detVars == <<det_threshold, det_fees, det_exchange_data, det_opportunities, det_pc>>

graphVars == <<agent_state, graph_nodes, graph_step, graph_cycle>>
monitorVars == <<running, last_check_time, monitor_pc, mon_config, mon_opportunities, mon_idx,
                 mon_cycle>>
cycleVars == <<cycle_pc, cycle_locals, cycle_result>>
assessAllVars == <<ras_config, ras_pool_state, ras_strategies, ras_tasks, ras_read, ras_result, ras_pc>>
groupVars == <<grp_plans, grp_result, grp_pc>>
generateVars == <<gen_config, gen_pool_state, gen_opportunities, gen_fallback, gen_idx, gen_strategies, gen_result, gen_pc>>
reflectVars == <<refl_config, refl_reflection, refl_count>>
lifecycleVars == <<life_agent, life_clock, life_last, life_calls>>
orderVars == <<ord_call, ord_elapsed, ord_result, ord_pc>>
fallbackVars == <<fb_config, fb_active, fb_until, fb_clock, fb_calls, fb_log>>
flowVars == <<flow_in, flow_pc, flow_attempt, flow_locals, flow_calls>>
rateVars == <<rl_exchange, rl_clock, rl_last_request, rl_pc, rl_wake, rl_seen, rl_released>>

vars == <<slipVars, optVars, combVars, execVars, riskVars, detVars, graphVars, monitorVars, cycleVars, assessAllVars, groupVars, generateVars, reflectVars, lifecycleVars, orderVars, fallbackVars, flowVars, rateVars>>

\* what the actions of one component leave alone
notSlip == <<optVars, combVars, execVars, riskVars, detVars, graphVars, monitorVars, cycleVars, assessAllVars, groupVars, generateVars, reflectVars, lifecycleVars, orderVars, fallbackVars, flowVars, rateVars>>
notOpt == <<slipVars, combVars, execVars, riskVars, detVars, graphVars, monitorVars, cycleVars, assessAllVars, groupVars, generateVars, reflectVars, lifecycleVars, orderVars, fallbackVars, flowVars, rateVars>>
notComb == <<slipVars, optVars, execVars, riskVars, detVars, graphVars, monitorVars, cycleVars, assessAllVars, groupVars, generateVars, reflectVars, lifecycleVars, orderVars, fallbackVars, flowVars, rateVars>>
notExec == <<slipVars, optVars, combVars, riskVars, detVars, graphVars, monitorVars, cycleVars, assessAllVars, groupVars, generateVars, reflectVars, lifecycleVars, orderVars, fallbackVars, flowVars, rateVars>>
notRisk == <<slipVars, optVars, combVars, execVars, detVars, graphVars, monitorVars, cycleVars, assessAllVars, groupVars, generateVars, reflectVars, lifecycleVars, orderVars, fallbackVars, flowVars, rateVars>>
notDet == <<slipVars, optVars, combVars, execVars, riskVars, graphVars, monitorVars, cycleVars, assessAllVars, groupVars, generateVars, reflectVars, lifecycleVars, orderVars, fallbackVars, flowVars, rateVars>>
notGraph == <<slipVars, optVars, combVars, execVars, riskVars, detVars, monitorVars, cycleVars, assessAllVars, groupVars, generateVars, reflectVars, lifecycleVars, orderVars, fallbackVars, flowVars, rateVars>>
notMonitor == <<slipVars, optVars, combVars, execVars, riskVars, detVars, graphVars, cycleVars, assessAllVars, groupVars, generateVars, reflectVars, lifecycleVars, orderVars, fallbackVars, flowVars, rateVars>>
notCycle == <<slipVars, optVars, combVars, execVars, riskVars, detVars, graphVars, monitorVars, assessAllVars, groupVars, generateVars, reflectVars, lifecycleVars, orderVars, fallbackVars, flowVars, rateVars>>
notAssessAll == <<slipVars, optVars, combVars, execVars, riskVars, detVars, graphVars, monitorVars, cycleVars, groupVars, generateVars, reflectVars, lifecycleVars, orderVars, fallbackVars, flowVars, rateVars>>
notGroup == <<slipVars, optVars, combVars, execVars, riskVars, detVars, graphVars, monitorVars, cycleVars, assessAllVars, generateVars, reflectVars, lifecycleVars, orderVars, fallbackVars, flowVars, rateVars>>
notGenerate == <<slipVars, optVars, combVars, execVars, riskVars, detVars, graphVars, monitorVars, cycleVars, assessAllVars, groupVars, reflectVars, lifecycleVars, orderVars, fallbackVars, flowVars, rateVars>>
notReflect == <<slipVars, optVars, combVars, execVars, riskVars, detVars, graphVars, monitorVars, cycleVars, assessAllVars, groupVars, generateVars, lifecycleVars, orderVars, fallbackVars, flowVars, rateVars>>
notLifecycle == <<slipVars, optVars, combVars, execVars, riskVars, detVars, graphVars, monitorVars, cycleVars, assessAllVars, groupVars, generateVars, reflectVars, orderVars, fallbackVars, flowVars, rateVars>>
notOrder == <<slipVars, optVars, combVars, execVars, riskVars, detVars, graphVars, monitorVars, cycleVars, assessAllVars, groupVars, generateVars, reflectVars, lifecycleVars, fallbackVars, flowVars, rateVars>>
notFallback == <<slipVars, optVars, combVars, execVars, riskVars, detVars, graphVars, monitorVars, cycleVars, assessAllVars, groupVars, generateVars, reflectVars, lifecycleVars, orderVars, flowVars, rateVars>>
notFlow == <<slipVars, optVars, combVars, execVars, riskVars, detVars, graphVars, monitorVars, cycleVars, assessAllVars, groupVars, generateVars, reflectVars, lifecycleVars, orderVars, fallbackVars, rateVars>>
notRate == <<slipVars, optVars, combVars, execVars, riskVars, detVars, graphVars, monitorVars, cycleVars, assessAllVars, groupVars, generateVars, reflectVars, lifecycleVars, orderVars, fallbackVars, flowVars>>

NoValue == [none |-> TRUE]
Missing == [missing |-> TRUE]        \* an attribute or key that is not set

-----------------------------------------------------------------------------
(* Exact rational arithmetic standing for Python float arithmetic.          *)

Abs(x) == IF x < 0 THEN -x ELSE x

RECURSIVE GCD(_, _)
GCD(a, b) == IF b = 0 THEN a ELSE GCD(b, a % b)

Rat(n, d) ==
    LET s == IF d < 0 THEN -1 ELSE 1
        g == GCD(Abs(n), Abs(d))
    IN  [n |-> (s * n) \div g, d |-> (s * d) \div g]

RInt(i) == [n |-> i, d |-> 1]
\* Sums go through the least common denominator and products cancel crosswise,
\* so that intermediate values stay small.
RAdd(x, y) ==
    LET g == GCD(x.d, y.d)
    IN  Rat(x.n * (y.d \div g) + y.n * (x.d \div g), (x.d \div g) * y.d)
RNeg(x) == [n |-> -x.n, d |-> x.d]
RSub(x, y) == RAdd(x, RNeg(y))
RMul(x, y) ==
    LET g1 == GCD(Abs(x.n), y.d)
        g2 == GCD(Abs(y.n), x.d)
    IN  Rat((x.n \div g1) * (y.n \div g2), (x.d \div g2) * (y.d \div g1))
RInv(y) == IF y.n < 0 THEN [n |-> -y.d, d |-> -y.n] ELSE [n |-> y.d, d |-> y.n]
RDiv(x, y) == RMul(x, RInv(y))            \* y # 0; callers guard ZeroDivisionError
RLe(x, y) ==
    LET g == GCD(x.d, y.d) IN x.n * (y.d \div g) <= y.n * (x.d \div g)
RLt(x, y) ==
    LET g == GCD(x.d, y.d) IN x.n * (y.d \div g) < y.n * (x.d \div g)
RMin(x, y) == IF RLe(x, y) THEN x ELSE y
RMax(x, y) == IF RLe(y, x) THEN x ELSE y     \* Python max keeps the first of equals
RAbs(x) == [n |-> Abs(x.n), d |-> x.d]
RZero == RInt(0)
ROne == RInt(1)

-----------------------------------------------------------------------------
(* ExecutionOptimizer: slippage estimation                                  *)

MaxBookLen == 2                 \* longest order-book side explored
BookPrices == {0, 1, 100, 102}
BookAmounts == {0, 1, 5}
SlipSizes == {0, 3, 8, 600}

Orders == [price : BookPrices, amount : BookAmounts]

SeqsUpTo(S, k) == UNION {[1..m -> S] : m \in 0..k}

\* sorted(orders, key=price): Python's sort is stable and ascending.
RECURSIVE InsertByPrice(_, _)
InsertByPrice(sorted, o) ==
    IF sorted = <<>> THEN <<o>>
    ELSE IF sorted[Len(sorted)].price <= o.price THEN Append(sorted, o)
    ELSE Append(InsertByPrice(SubSeq(sorted, 1, Len(sorted) - 1), o), sorted[Len(sorted)])

RECURSIVE SortByPrice(_)
SortByPrice(orders) ==
    IF orders = <<>> THEN <<>>
    ELSE InsertByPrice(SortByPrice(SubSeq(orders, 1, Len(orders) - 1)), orders[Len(orders)])

DefaultSlippage == Rat(1, 1000)        \* 0.001
ErrorSlippage == Rat(2, 1000)          \* 0.002
UnfilledSlippage == Rat(5, 1000)       \* 0.005

\* The for-loop over sorted_orders with its continue and break.
RECURSIVE FillWalk(_, _, _, _)
FillWalk(sorted_orders, i, remaining_size, total_cost) ==
    IF i > Len(sorted_orders)
    THEN [remaining_size |-> remaining_size, total_cost |-> total_cost]
    ELSE LET price == RInt(sorted_orders[i].price)
             amount == RInt(sorted_orders[i].amount)
             order_cost == RMul(price, amount)
         IN  IF RLe(price, RZero) \/ RLe(amount, RZero)
             THEN FillWalk(sorted_orders, i + 1, remaining_size, total_cost)
             ELSE IF RLe(remaining_size, order_cost)
             THEN [remaining_size |-> RZero,
                   total_cost |-> RAdd(total_cost, RMul(price, RDiv(remaining_size, price)))]
             ELSE FillWalk(sorted_orders, i + 1, RSub(remaining_size, order_cost),
                           RAdd(total_cost, order_cost))

calculate_slippage_from_orders(orders, position_size) ==
    IF orders = <<>> THEN DefaultSlippage
    ELSE LET sorted_orders == SortByPrice(orders)
             best_price == RInt(sorted_orders[1].price)
         IN  IF RLe(best_price, RZero) THEN DefaultSlippage
             ELSE LET w == FillWalk(sorted_orders, 1, position_size, RZero)
                      unfilled_ratio == RDiv(w.remaining_size, position_size)
                      additional_slippage == RMul(unfilled_ratio, UnfilledSlippage)
                      last_price == RInt(sorted_orders[Len(sorted_orders)].price)
                      total_cost ==
                          IF RLt(RZero, w.remaining_size)
                          THEN RAdd(w.total_cost,
                                    RMul(RMul(w.remaining_size, last_price),
                                         RAdd(ROne, additional_slippage)))
                          ELSE w.total_cost
                      weighted_avg_price ==
                          IF RLt(RZero, position_size) THEN RDiv(total_cost, position_size)
                          ELSE best_price
                  IN  RDiv(RAbs(RSub(weighted_avg_price, best_price)), best_price)


-----------------------------------------------------------------------------
(* ExecutionOptimizer: configuration, market details, plan creation         *)

\* config.exchange_fees, in percent (utils/config.py); .get(exchange, 0.1)
exchange_fees ==
    [e \in {"Binance", "Coinbase", "Kraken", "Huobi", "KuCoin"} |->
        CASE e = "Binance" -> Rat(1, 10)
          [] e = "Coinbase" -> Rat(5, 10)
          [] e = "Kraken" -> Rat(26, 100)
          [] e = "Huobi" -> Rat(2, 10)
          [] e = "KuCoin" -> Rat(1, 10)]

\* an exchange_fees map set through AgentConfig.update or carried by another
\* config object
OtherExchangeFees ==
    [e \in {"Binance", "Coinbase"} |-> IF e = "Binance" THEN ROne ELSE Rat(15, 10)]

\* fees.get(exchange, 0.1)
fee_of(fees, exchange) ==
    IF exchange \in DOMAIN fees THEN fees[exchange] ELSE Rat(1, 10)

DefaultGasCost == RInt(5)

\* A configured exchange_gas_costs map used when the attribute is set.
ConfiguredGasCosts == [e \in {"Binance", "Coinbase"} |-> IF e = "Binance" THEN RInt(2) ELSE RInt(4)]

\* AgentConfig as the optimizer is constructed with: its exchange_fees, no
\* exchange_gas_costs
DefaultOptimizerConfig == [exchange_fees |-> exchange_fees, exchange_gas_costs |-> Missing]

\* a dictionary installed as self.config: it has keys, no attributes
OptimizerDictConfig == [exchange_fees |-> Missing, exchange_gas_costs |-> Missing]

\* the configurations of the optimizer explored: AgentConfig as it is, which
\* sets no exchange_gas_costs, with the fees it starts with or others; a
\* config object that carries a gas cost map as well; and a dictionary
OptimizerConfigs ==
    [exchange_fees : {exchange_fees, OtherExchangeFees},
     exchange_gas_costs : {Missing, ConfiguredGasCosts}] \cup {OptimizerDictConfig}

GasMultiplier(gas_setting) ==
    CASE gas_setting = "low" -> Rat(8, 10)
      [] gas_setting = "medium" -> ROne
      [] gas_setting = "high" -> Rat(15, 10)
      [] OTHER -> ROne

\* _estimate_gas_cost: reading a config attribute that is not set raises
\* AttributeError inside the try, and the except returns 5.0.
estimate_gas_cost(gas_costs, exchange, gas_setting) ==
    IF gas_costs = Missing THEN DefaultGasCost
    ELSE LET base_gas_cost == IF exchange \in DOMAIN gas_costs THEN gas_costs[exchange]
                              ELSE DefaultGasCost
         IN  RMul(base_gas_cost, GasMultiplier(gas_setting))

\* What exchange_client.get_market_details returned: EmptyDict ({} after an
\* error), or a dict with "price" and "order_book" (itself {} or bids/asks).
EmptyDict == [empty |-> TRUE]

\* _estimate_slippage
estimate_slippage(market_data, position_size) ==
    LET order_book == IF market_data = EmptyDict THEN EmptyDict ELSE market_data.order_book
    IN  IF order_book = EmptyDict THEN DefaultSlippage
        ELSE IF RLt(RZero, position_size) /\ order_book.asks # <<>>
        THEN calculate_slippage_from_orders(order_book.asks, position_size)
        ELSE IF RLt(RZero, position_size) /\ order_book.bids # <<>>
        THEN calculate_slippage_from_orders(order_book.bids, position_size)
        ELSE DefaultSlippage

Hundred == RInt(100)

\* _create_execution_plan, in the order of its statements.  Each stage below
\* receives the locals computed so far as parameters.  The result is the plan,
\* or NoValue for None.  strategy_id stands for id(strategy); timestamps are
\* left out.

\* lines 177-213: amounts, fees, expected profit and the plan dict
plan_with_profit(fees, strategy, position_size, current_buy_price, current_sell_price, buy_slippage, sell_slippage, effective_buy_price, effective_sell_price, total_gas_cost) ==
    LET opportunity == strategy.opportunity
        buy_amount == RDiv(position_size, effective_buy_price)
        buy_fee == RDiv(fee_of(fees, opportunity.buy_exchange), Hundred)
        sell_fee == RDiv(fee_of(fees, opportunity.sell_exchange), Hundred)
        buy_fee_amount == RMul(position_size, buy_fee)     \* assigned, never read
        sell_amount_after_fees == RMul(buy_amount, RSub(ROne, sell_fee))
        expected_revenue == RMul(sell_amount_after_fees, effective_sell_price)
        expected_profit == RSub(RSub(expected_revenue, position_size), total_gas_cost)
    IN  [strategy_id |-> strategy.id,
         pair |-> opportunity.pair,
         buy_exchange |-> opportunity.buy_exchange,
         sell_exchange |-> opportunity.sell_exchange,
         position_size |-> position_size,
         buy_price |-> current_buy_price,
         sell_price |-> current_sell_price,
         effective_buy_price |-> effective_buy_price,
         effective_sell_price |-> effective_sell_price,
         buy_slippage |-> buy_slippage,
         sell_slippage |-> sell_slippage,
         buy_amount |-> buy_amount,
         sell_amount |-> sell_amount_after_fees,
         gas_cost |-> total_gas_cost,
         expected_profit |-> expected_profit,
         expected_profit_pct |-> RMul(RDiv(expected_profit, position_size), Hundred),
         gas_settings |-> strategy.gas_settings,
         circuit_breakers |-> strategy.circuit_breakers]

\* lines 171-183: the gas costs of both legs, then self.config.exchange_fees,
\* which raises AttributeError when the config has none: the except returns None
plan_with_costs(config, strategy, position_size, current_buy_price, current_sell_price, buy_slippage, sell_slippage, effective_buy_price, effective_sell_price) ==
    IF config.exchange_fees = Missing THEN NoValue
    ELSE plan_with_profit(config.exchange_fees, strategy, position_size, current_buy_price,
                          current_sell_price, buy_slippage, sell_slippage,
                          effective_buy_price, effective_sell_price,
                          RAdd(estimate_gas_cost(config.exchange_gas_costs,
                                                 strategy.opportunity.buy_exchange,
                                                 strategy.gas_settings),
                               estimate_gas_cost(config.exchange_gas_costs,
                                                 strategy.opportunity.sell_exchange,
                                                 strategy.gas_settings)))

\* mutant: the slippage of the buy leg is left out of the check
plan_if_profitable_AgainstQuotedBuy(config, strategy, position_size, current_buy_price, current_sell_price, buy_slippage, sell_slippage, effective_buy_price, effective_sell_price) ==
    IF RLe(effective_sell_price, current_buy_price) THEN NoValue
    ELSE plan_with_costs(config, strategy, position_size, current_buy_price, current_sell_price,
                         buy_slippage, sell_slippage, effective_buy_price, effective_sell_price)

\* lines 167-175: "if effective_sell_price <= effective_buy_price: return None"
plan_if_profitable(config, strategy, position_size, current_buy_price, current_sell_price, buy_slippage, sell_slippage, effective_buy_price, effective_sell_price) ==
    IF RLe(effective_sell_price, effective_buy_price) THEN NoValue
    ELSE plan_with_costs(config, strategy, position_size, current_buy_price, current_sell_price,
                         buy_slippage, sell_slippage, effective_buy_price, effective_sell_price)

\* lines 159-165: slippage-adjusted prices
plan_with_slippage(config, strategy, position_size, current_buy_price, current_sell_price, buy_slippage, sell_slippage) ==
    plan_if_profitable(config, strategy, position_size, current_buy_price, current_sell_price,
                       buy_slippage, sell_slippage,
                       RMul(current_buy_price, RAdd(ROne, buy_slippage)),
                       RMul(current_sell_price, RSub(ROne, sell_slippage)))

\* lines 153-161: "if price_diff_pct <= 0: return None"; a zero buy price
\* raises ZeroDivisionError, which the except turns into None
plan_if_open(config, strategy, position_size, buy_market_data, sell_market_data, current_buy_price, current_sell_price) ==
    IF current_buy_price = RZero THEN NoValue
    ELSE IF RLe(RMul(RDiv(RSub(current_sell_price, current_buy_price), current_buy_price),
                     Hundred), RZero)
    THEN NoValue
    ELSE plan_with_slippage(config, strategy, position_size, current_buy_price,
                            current_sell_price,
                            estimate_slippage(buy_market_data, position_size),
                            estimate_slippage(sell_market_data, position_size))

\* lines 136-151: market_data.get("price", opportunity price)
create_execution_plan(config, strategy, position_size, buy_market_data, sell_market_data) ==
    plan_if_open(config, strategy, position_size, buy_market_data, sell_market_data,
                 IF buy_market_data = EmptyDict THEN RInt(strategy.opportunity.buy_price)
                 ELSE RInt(buy_market_data.price),
                 IF sell_market_data = EmptyDict THEN RInt(strategy.opportunity.sell_price)
                 ELSE RInt(sell_market_data.price))

-----------------------------------------------------------------------------
(* ExecutionOptimizer: batching                                             *)

Range(f) == {f[i] : i \in DOMAIN f}

RECURSIVE RSum(_)
RSum(xs) == IF xs = <<>> THEN RZero
            ELSE RAdd(RSum(SubSeq(xs, 1, Len(xs) - 1)), xs[Len(xs)])

\* mutant: the gas costs of a group are added up instead of paid once
RMaxOf_Summed(xs) == RSum(xs)

\* max(...) over a non-empty list; Python keeps the first of equal values
RECURSIVE RMaxOf(_)
RMaxOf(xs) == IF Len(xs) = 1 THEN xs[1]
              ELSE RMax(RMaxOf(SubSeq(xs, 1, Len(xs) - 1)), xs[Len(xs)])

RECURSIVE RMinOf(_)
RMinOf(xs) == IF Len(xs) = 1 THEN xs[1]
              ELSE RMin(RMinOf(SubSeq(xs, 1, Len(xs) - 1)), xs[Len(xs)])

RECURSIVE MinOf(_)
MinOf(xs) == IF Len(xs) = 1 THEN xs[1]
             ELSE LET m == MinOf(SubSeq(xs, 1, Len(xs) - 1))
                  IN  IF xs[Len(xs)] < m THEN xs[Len(xs)] ELSE m

\* d.get(key, default) on a circuit_breakers dict
DictGet(d, key, default) == IF key \in DOMAIN d THEN d[key] ELSE default

DefaultMaxSlippage == ROne          \* 1.0
DefaultTimeoutSeconds == 30

\* _combine_plans; strategy_id stands for f"combined-{timestamp}"
combine_plans(plans) ==
    IF plans = <<>> THEN EmptyDict
    ELSE IF Len(plans) = 1 THEN plans[1]
    ELSE
    LET base_plan == plans[1]
        total_position_size == RSum([i \in DOMAIN plans |-> plans[i].position_size])
        total_buy_amount == RSum([i \in DOMAIN plans |-> plans[i].buy_amount])
        total_sell_amount == RSum([i \in DOMAIN plans |-> plans[i].sell_amount])
        total_expected_profit == RSum([i \in DOMAIN plans |-> plans[i].expected_profit])
        max_gas_cost == RMaxOf([i \in DOMAIN plans |-> plans[i].gas_cost])
        weighted_buy_price ==
            IF RLt(RZero, total_position_size)
            THEN RDiv(RSum([i \in DOMAIN plans |->
                               RMul(plans[i].buy_price, plans[i].position_size)]),
                      total_position_size)
            ELSE RZero
        weighted_sell_price ==
            IF RLt(RZero, total_position_size)
            THEN RDiv(RSum([i \in DOMAIN plans |->
                               RMul(plans[i].sell_price, plans[i].position_size)]),
                      total_position_size)
            ELSE RZero
        expected_profit_pct ==
            IF RLt(RZero, total_position_size)
            THEN RMul(RDiv(total_expected_profit, total_position_size), Hundred)
            ELSE RZero
        max_slippage ==
            RMinOf([i \in DOMAIN plans |->
                       DictGet(plans[i].circuit_breakers, "max_slippage", DefaultMaxSlippage)])
        timeout_seconds ==
            MinOf([i \in DOMAIN plans |->
                      DictGet(plans[i].circuit_breakers, "timeout_seconds", DefaultTimeoutSeconds)])
    IN  [strategy_id |-> "combined",
         pair |-> base_plan.pair,
         buy_exchange |-> base_plan.buy_exchange,
         sell_exchange |-> base_plan.sell_exchange,
         position_size |-> total_position_size,
         buy_price |-> weighted_buy_price,
         sell_price |-> weighted_sell_price,
         buy_amount |-> total_buy_amount,
         sell_amount |-> total_sell_amount,
         gas_cost |-> max_gas_cost,
         expected_profit |-> total_expected_profit,
         expected_profit_pct |-> expected_profit_pct,
         gas_settings |-> base_plan.gas_settings,
         circuit_breakers |-> [max_slippage |-> max_slippage,
                               timeout_seconds |-> timeout_seconds],
         combined_plan |-> TRUE,
         combined_count |-> Len(plans)]

\* the keys of a dict filled in list order: first appearances, in order
RECURSIVE FirstSeen(_)
FirstSeen(keys) ==
    IF keys = <<>> THEN <<>>
    ELSE LET rest == FirstSeen(SubSeq(keys, 1, Len(keys) - 1))
         IN  IF keys[Len(keys)] \in Range(rest) THEN rest ELSE Append(rest, keys[Len(keys)])

RECURSIVE Flatten(_)
Flatten(seqs) == IF seqs = <<>> THEN <<>>
                 ELSE Flatten(SubSeq(seqs, 1, Len(seqs) - 1)) \o seqs[Len(seqs)]

\* mutant: plans are keyed by their buy exchange alone
ExchangeKey_BuyOnly(plan) == plan.buy_exchange

\* f"{buy_exchange}-{sell_exchange}"
ExchangeKey(plan) == plan.buy_exchange \o "-" \o plan.sell_exchange

\* the inner loop of _group_similar_executions for one exchange group
group_by_pair(plans) ==
    LET pairs == FirstSeen([i \in DOMAIN plans |-> plans[i].pair])
        OfPair(pr) == SelectSeq(plans, LAMBDA pl : pl.pair = pr)
    IN  Flatten([k \in DOMAIN pairs |->
                    IF Len(OfPair(pairs[k])) <= 1 THEN OfPair(pairs[k])
                    ELSE <<combine_plans(OfPair(pairs[k]))>>])

\* _group_similar_executions
group_similar_executions(plans) ==
    IF Len(plans) <= 1 THEN plans
    ELSE LET keys == FirstSeen([i \in DOMAIN plans |-> ExchangeKey(plans[i])])
             OfKey(key) == SelectSeq(plans, LAMBDA pl : ExchangeKey(pl) = key)
         IN  Flatten([k \in DOMAIN keys |->
                         IF Len(OfKey(keys[k])) <= 1 THEN OfKey(keys[k])
                         ELSE group_by_pair(OfKey(keys[k]))])


-----------------------------------------------------------------------------
(* ExecutionOptimizer.optimize: inputs explored                             *)

MaxStrategies == 2              \* longest strategies list explored

Opportunity(pair, buy_exchange, sell_exchange, buy_price, sell_price) ==
    [pair |-> pair, buy_exchange |-> buy_exchange, sell_exchange |-> sell_exchange,
     buy_price |-> buy_price, sell_price |-> sell_price]

OppA == Opportunity("BTC/USDT", "Binance", "Coinbase", 100, 110)
OppB == Opportunity("ETH/USDT", "Binance", "Coinbase", 100, 110)
OppC == Opportunity("BTC/USDT", "Kraken", "Coinbase", 100, 110)

Strategy(priority, pct, opportunity, gas, breakers) ==
    [id |-> 0, execution_priority |-> priority, position_size_pct |-> pct,
     opportunity |-> opportunity, gas_settings |-> gas, circuit_breakers |-> breakers]

StrategyTemplates ==
    { Strategy(7, 60, OppA, "medium", [max_slippage |-> Rat(1, 2), timeout_seconds |-> 30]),
      Strategy(5, 60, OppA, "high", [max_slippage |-> RInt(2), timeout_seconds |-> 20]),
      Strategy(5, 60, OppB, "low", [max_slippage |-> Rat(1, 2), timeout_seconds |-> 30]),
      Strategy(7, 30, OppC, "medium", [timeout_seconds |-> 45]),
      Strategy(5, 0, OppA, "medium", [max_slippage |-> Rat(1, 2), timeout_seconds |-> 30]),
      Strategy(7, 150, OppB, "high", [max_slippage |-> Rat(1, 2), timeout_seconds |-> 30]) }

\* a strategies list; id stands for the identity of each dict (its input position)
StrategyLists ==
    {[i \in DOMAIN l |-> [l[i] EXCEPT !.id = i]] : l \in SeqsUpTo(StrategyTemplates, MaxStrategies)}

PoolStates ==
    { [total_value |-> 1500, liquidity_reserve |-> 500],
      [total_value |-> 400, liquidity_reserve |-> 500] }

MarketDetails(price, order_book) == [price |-> price, order_book |-> order_book]
OrderBook(asks, bids) == [asks |-> asks, bids |-> bids]
Order(price, amount) == [price |-> price, amount |-> amount]

\* pairs of (buy, sell) answers of exchange_client.get_market_details
MarketScenarios ==
    { <<MarketDetails(100, EmptyDict), MarketDetails(110, EmptyDict)>>,
      <<MarketDetails(100, EmptyDict), MarketDetails(100, EmptyDict)>>,
      <<MarketDetails(1000, EmptyDict), MarketDetails(1002, EmptyDict)>>,
      <<MarketDetails(100, OrderBook(<<Order(100, 5)>>, <<Order(99, 5)>>)),
        MarketDetails(110, OrderBook(<<Order(111, 5)>>, <<Order(110, 5)>>))>>,
      <<MarketDetails(0, EmptyDict), MarketDetails(110, EmptyDict)>>,
      <<EmptyDict, EmptyDict>>,
      <<MarketDetails(100, OrderBook(<<Order(1, 1000)>>, <<>>)),
        MarketDetails(110, OrderBook(<<>>, <<Order(1, 1000)>>))>> }

\* ---- inputs of the _combine_plans harness: plans as _create_execution_plan
\* builds them, all for the same exchanges and pair, of two sizes and two gas
\* settings, with exchange_gas_costs configured or not
MaxCombine == 3                 \* longest plans list explored

CombinePlanPool ==
    { create_execution_plan([exchange_fees |-> exchange_fees, exchange_gas_costs |-> gc],
                            s, RInt(sz), MarketDetails(100, EmptyDict),
                            MarketDetails(110, EmptyDict)) :
        gc \in {Missing, ConfiguredGasCosts},
        s \in { Strategy(7, 60, OppA, "medium", [max_slippage |-> Rat(1, 2), timeout_seconds |-> 30]),
                Strategy(5, 60, OppA, "high", [max_slippage |-> RInt(2), timeout_seconds |-> 20]) },
        sz \in {100, 600} }

\* mutant: a decision goes in front of the decisions of its own priority
RECURSIVE InsertByPriority_Unstable(_, _)
InsertByPriority_Unstable(sorted, st) ==
    IF sorted = <<>> THEN <<st>>
    ELSE IF sorted[Len(sorted)].execution_priority > st.execution_priority
    THEN Append(sorted, st)
    ELSE Append(InsertByPriority_Unstable(SubSeq(sorted, 1, Len(sorted) - 1), st),
                sorted[Len(sorted)])

\* sorted(strategies, key=execution_priority, reverse=True): stable
RECURSIVE InsertByPriority(_, _)
InsertByPriority(sorted, st) ==
    IF sorted = <<>> THEN <<st>>
    ELSE IF sorted[Len(sorted)].execution_priority >= st.execution_priority
    THEN Append(sorted, st)
    ELSE Append(InsertByPriority(SubSeq(sorted, 1, Len(sorted) - 1), st), sorted[Len(sorted)])

\* mutant: the list is walked in input order, unsorted
SortByPriority_Unsorted(strategies) == strategies

RECURSIVE SortByPriority(_)
SortByPriority(strategies) ==
    IF strategies = <<>> THEN <<>>
    ELSE InsertByPriority(SortByPriority(SubSeq(strategies, 1, Len(strategies) - 1)),
                          strategies[Len(strategies)])

\* max(0, total_value - liquidity_reserve)
AvailableCapital(pool_state) ==
    RMax(RZero, RInt(pool_state.total_value - pool_state.liquidity_reserve))

\* mutant: the position is not capped by the remaining capital
PositionSize_Uncapped(remaining, available, strategy) ==
    RMul(available, Rat(strategy.position_size_pct, 100))

\* min(remaining_capital, available_capital * (position_size_pct / 100.0))
PositionSize(remaining, available, strategy) ==
    RMin(remaining, RMul(available, Rat(strategy.position_size_pct, 100)))

\* the capital set aside at the visit of a decision, whether a plan came or not
remaining_after_SetAside(remaining, position_size, execution_plan) ==
    RSub(remaining, position_size)

\* lines 107-109: "if execution_plan:" the plan is kept and
\* remaining_capital -= position_size; otherwise nothing changes
remaining_after(remaining, position_size, execution_plan) ==
    IF execution_plan # NoValue THEN RSub(remaining, position_size) ELSE remaining


-----------------------------------------------------------------------------
(* ExecutionOptimizer: execution of a plan                                  *)

MaxExecPlans == 2               \* longest execution_plans list explored

\* execute_order raising instead of returning
OrderRaised == [raised |-> "ConnectionError"]

\* What the exchange client may answer to an order: failures (with an error,
\* with a partial fill, or an empty dict), the dict ExchangeClient.execute_order
\* builds on success (executed_price and amount, no filled_amount), fills of
\* zero and of a positive amount, and an exception.
OrderResponses(order) ==
    { [success |-> FALSE, error |-> "Invalid market price"],
      [success |-> FALSE, error |-> "Order timed out", price |-> RInt(101),
       filled_amount |-> RInt(2)],
      EmptyDict,
      [success |-> TRUE, executed_price |-> order.price, amount |-> order.amount],
      [success |-> TRUE, price |-> RInt(101), filled_amount |-> RZero],
      [success |-> TRUE, price |-> RInt(101), filled_amount |-> RInt(5)],
      OrderRaised }

\* the plans handed to execute: a plan of _create_execution_plan, a combined
\* plan, and a plan whose position size is zero
ExecPlanPool ==
    LET p1 == create_execution_plan(DefaultOptimizerConfig,
                  Strategy(7, 60, OppA, "medium", [max_slippage |-> Rat(1, 2), timeout_seconds |-> 30]),
                  RInt(600), MarketDetails(100, EmptyDict), MarketDetails(110, EmptyDict))
        p2 == create_execution_plan(DefaultOptimizerConfig,
                  Strategy(5, 60, OppA, "high", [timeout_seconds |-> 20]),
                  RInt(400), MarketDetails(100, EmptyDict), MarketDetails(110, EmptyDict))
    IN  { p1, combine_plans(<<p1, p2>>), [p2 EXCEPT !.position_size = RZero] }

\* mutant: an order is taken to have succeeded whatever it answered
order_succeeded_Always(result) == TRUE

\* result.get("success", False)
order_succeeded(result) == DictGet(result, "success", FALSE)

\* "if position_size <= 0 or buy_amount <= 0: return None"
plan_is_invalid(plan) == RLe(plan.position_size, RZero) \/ RLe(plan.buy_amount, RZero)

\* the keyword arguments of an execute_order call
order_call(plan, side, exchange, amount, price) ==
    [side |-> side, exchange |-> exchange, pair |-> plan.pair, amount |-> amount,
     price |-> price,
     max_slippage |-> RDiv(DictGet(plan.circuit_breakers, "max_slippage", DefaultMaxSlippage),
                           Hundred),
     timeout_seconds |-> DictGet(plan.circuit_breakers, "timeout_seconds", DefaultTimeoutSeconds)]

buy_order(plan) ==
    order_call(plan, "buy", plan.buy_exchange, plan.position_size, plan.buy_price)

\* buy_result.get("filled_amount", 0)
filled_amount(result) == DictGet(result, "filled_amount", RZero)

\* the sell order is sized from what the buy filled (lines 606-614)
sell_order(plan, buy_result) ==
    order_call(plan, "sell", plan.sell_exchange, filled_amount(buy_result), plan.sell_price)

\* the failure dicts _execute_plan returns
failed_result(plan, stage, error) ==
    [plan |-> plan, success |-> FALSE, stage |-> stage, error |-> error]

\* mutant: a failed sell is reported like a failed buy, without the buy leg
sell_failed_result_WithoutBuyLeg(plan, buy_result, sell_result) ==
    failed_result(plan, "sell", DictGet(sell_result, "error", "Sell order failed"))

sell_failed_result(plan, buy_result, sell_result) ==
    [plan |-> plan, success |-> FALSE, stage |-> "sell",
     error |-> DictGet(sell_result, "error", "Sell order failed"),
     buy_result |-> buy_result]

\* lines 627-671: the execution result of a plan whose two orders succeeded
profit_result(plan, actual_buy_price, actual_buy_amount, actual_sell_price, actual_sell_amount, buy_cost, sell_revenue, buy_fee_amount, sell_fee_amount) ==
    [plan |-> plan,
     success |-> TRUE,
     buy_result |-> [price |-> actual_buy_price, amount |-> actual_buy_amount,
                     cost |-> buy_cost, fee |-> buy_fee_amount],
     sell_result |-> [price |-> actual_sell_price, amount |-> actual_sell_amount,
                      revenue |-> sell_revenue, fee |-> sell_fee_amount],
     gas_cost |-> plan.gas_cost,
     actual_profit |->
         RSub(RSub(RSub(RSub(sell_revenue, buy_cost), buy_fee_amount), sell_fee_amount),
              plan.gas_cost),
     actual_profit_pct |->
         IF RLt(RZero, buy_cost)
         THEN RMul(RDiv(RSub(RSub(RSub(RSub(sell_revenue, buy_cost), buy_fee_amount),
                                  sell_fee_amount), plan.gas_cost), buy_cost), Hundred)
         ELSE RZero,
     expected_profit |-> plan.expected_profit,
     profit_difference |->
         RSub(RSub(RSub(RSub(RSub(sell_revenue, buy_cost), buy_fee_amount), sell_fee_amount),
                   plan.gas_cost), plan.expected_profit)]

\* lines 631-640: costs, revenue and the fees of both legs under the
\* exchange_fees map read from self.config
priced_result(fees, plan, actual_buy_price, actual_buy_amount, actual_sell_price, actual_sell_amount) ==
    profit_result(plan, actual_buy_price, actual_buy_amount, actual_sell_price,
                  actual_sell_amount,
                  RMul(actual_buy_price, actual_buy_amount),
                  RMul(actual_sell_price, actual_sell_amount),
                  RMul(RMul(actual_buy_price, actual_buy_amount),
                       RDiv(fee_of(fees, plan.buy_exchange), Hundred)),
                  RMul(RMul(actual_sell_price, actual_sell_amount),
                       RDiv(fee_of(fees, plan.sell_exchange), Hundred)))

execution_result(fees, plan, buy_result, sell_result) ==
    priced_result(fees, plan,
                  DictGet(buy_result, "price", plan.buy_price),
                  filled_amount(buy_result),
                  DictGet(sell_result, "price", plan.sell_price),
                  filled_amount(sell_result))

\* a buy answered with success goes on to the sell order whatever it filled
result_after_buy_WhateverFilled(plan, buy_result) ==
    IF buy_result = OrderRaised THEN failed_result(plan, "unknown", OrderRaised.raised)
    ELSE IF ~order_succeeded(buy_result)
    THEN failed_result(plan, "buy", DictGet(buy_result, "error", "Buy order failed"))
    ELSE NoValue

\* what _execute_plan returns once the buy order has answered, or NoValue
\* when it goes on to the sell order
result_after_buy(plan, buy_result) ==
    IF buy_result = OrderRaised THEN failed_result(plan, "unknown", OrderRaised.raised)
    ELSE IF ~order_succeeded(buy_result)
    THEN failed_result(plan, "buy", DictGet(buy_result, "error", "Buy order failed"))
    ELSE IF RLe(filled_amount(buy_result), RZero)
    THEN failed_result(plan, "buy", "Buy order filled with zero amount")
    ELSE NoValue

\* str(e) of the AttributeError "self.config.exchange_fees" raises when
\* self.config is a dictionary
FeesAttributeError == "'dict' object has no attribute 'exchange_fees'"

\* an exception of the sell order reported as a sell order that failed
result_after_sell_RaisedIsSellFailure(config, plan, buy_result, sell_result) ==
    IF sell_result = OrderRaised
    THEN [plan |-> plan, success |-> FALSE, stage |-> "sell",
          error |-> OrderRaised.raised, buy_result |-> buy_result]
    ELSE IF ~order_succeeded(sell_result) THEN sell_failed_result(plan, buy_result, sell_result)
    ELSE IF config.exchange_fees = Missing THEN failed_result(plan, "unknown", FeesAttributeError)
    ELSE execution_result(config.exchange_fees, plan, buy_result, sell_result)

\* what _execute_plan returns once the sell order has answered, under the
\* self.config in place at that moment: an exception of the order and the
\* AttributeError of the fee lines both end in the except clause
result_after_sell(config, plan, buy_result, sell_result) ==
    IF sell_result = OrderRaised THEN failed_result(plan, "unknown", OrderRaised.raised)
    ELSE IF ~order_succeeded(sell_result) THEN sell_failed_result(plan, buy_result, sell_result)
    ELSE IF config.exchange_fees = Missing THEN failed_result(plan, "unknown", FeesAttributeError)
    ELSE execution_result(config.exchange_fees, plan, buy_result, sell_result)

\* the sell order has answered with success: the task goes on to the fee
\* lines, which read self.config
reads_fees(sell_result) == sell_result # OrderRaised /\ order_succeeded(sell_result)

\* the configurations of the optimizer while plans execute: _execute_plan
\* reads exchange_fees only
ExecConfigs == {config \in OptimizerConfigs : config.exchange_gas_costs = Missing}

\* as_completed instead of gather: the values in the order the tasks returned
gather_AsCompleted(task_results, finished) ==
    [k \in DOMAIN finished |-> task_results[finished[k]]]

\* asyncio.gather: the values of the tasks in the order of the awaitables,
\* whatever the order they returned in
gather(task_results, finished) == task_results

-----------------------------------------------------------------------------
(* RiskAssessor                                                             *)

Ten == RInt(10)
Five == RInt(5)

\* _calculate_pool_impact
calculate_pool_impact(pool_state, position_size) ==
    IF pool_state.total_value <= 0 THEN Ten
    ELSE RMin(Ten, RAdd(ROne,
                        RMul(RDiv(RMul(RDiv(position_size, RInt(pool_state.total_value)),
                                       Hundred), Ten), RInt(9))))

\* available_capital * (position_size_pct / 100.0)
risk_position_size(pool_state, strategy) ==
    RMul(AvailableCapital(pool_state), Rat(strategy.position_size_pct, 100))

\* the tail of _calculate_liquidity_strain once expected_withdrawals is known
strain_of(pool_state, strategy, expected_withdrawals) ==
    IF pool_state.liquidity_reserve <= 0 THEN ROne
    ELSE IF pool_state.liquidity_reserve - expected_withdrawals <= 0 THEN ROne
    ELSE RMin(ROne, RDiv(risk_position_size(pool_state, strategy),
                         RInt(pool_state.liquidity_reserve - expected_withdrawals)))

\* _calculate_liquidity_strain; withdrawal_forecast is Missing (key absent), a
\* dict, or NoValue (None), on which .get raises and the except returns 0.5
calculate_liquidity_strain(pool_state, strategy) ==
    IF pool_state.withdrawal_forecast = NoValue THEN Rat(1, 2)
    ELSE IF pool_state.withdrawal_forecast = Missing THEN strain_of(pool_state, strategy, 0)
    ELSE strain_of(pool_state, strategy, DictGet(pool_state.withdrawal_forecast, "expected", 0))

withdrawal_risk(withdrawal_frequency) ==
    CASE withdrawal_frequency = "low" -> RInt(2)
      [] withdrawal_frequency = "medium" -> Five
      [] withdrawal_frequency = "high" -> RInt(8)
      [] OTHER -> Five

\* lines 251-270 of _calculate_participant_risk
participant_risk_of(avg_holding_period, withdrawal_frequency, new_participants_ratio) ==
    RAdd(RAdd(RMul(RSub(Ten, RMin(Ten, RDiv(RInt(avg_holding_period), Ten))), Rat(4, 10)),
              RMul(withdrawal_risk(withdrawal_frequency), Rat(4, 10))),
         RMul(RMul(new_participants_ratio, Ten), Rat(2, 10)))

\* _calculate_participant_risk; participant_metrics is Missing, a dict, or NoValue
calculate_participant_risk(pool_state) ==
    IF pool_state.participant_metrics = NoValue THEN Five
    ELSE IF pool_state.participant_metrics = Missing
    THEN participant_risk_of(30, "low", Rat(1, 10))
    ELSE participant_risk_of(DictGet(pool_state.participant_metrics, "avg_holding_period_days", 30),
                             DictGet(pool_state.participant_metrics, "withdrawal_frequency", "low"),
                             DictGet(pool_state.participant_metrics, "new_participants_ratio",
                                     Rat(1, 10)))

\* P(A or B) = P(A) + P(B) - P(A) * P(B)
combined_prob(buy_failure_prob, sell_failure_prob) ==
    RSub(RAdd(buy_failure_prob, sell_failure_prob), RMul(buy_failure_prob, sell_failure_prob))

\* _calculate_exchange_failure_prob; a config without exchange_failure_probs
\* raises AttributeError and the except returns 0.05
calculate_exchange_failure_prob(config, strategy) ==
    IF config.exchange_failure_probs = Missing THEN Rat(5, 100)
    ELSE combined_prob(DictGet(config.exchange_failure_probs,
                               strategy.opportunity.buy_exchange, Rat(1, 100)),
                       DictGet(config.exchange_failure_probs,
                               strategy.opportunity.sell_exchange, Rat(1, 100)))

\* _calculate_overall_risk
calculate_overall_risk(pool_impact_score, liquidity_strain_index, participant_risk, exchange_failure_prob) ==
    RAdd(RAdd(RAdd(RMul(pool_impact_score, Rat(3, 10)),
                   RMul(RMul(liquidity_strain_index, Ten), Rat(3, 10))),
              RMul(participant_risk, Rat(2, 10))),
         RMul(RMul(exchange_failure_prob, Ten), Rat(2, 10)))

\* mutant: the default assessment proceeds only strictly above its own score
default_proceed_Strict(config) == RLt(Five, config.max_risk_threshold)

\* "proceed": self.config.max_risk_threshold >= 5.0
default_proceed(config) == RLe(Five, config.max_risk_threshold)

\* _default_assessment
default_assessment(config) ==
    [pool_impact_score |-> Five,
     liquidity_strain_index |-> Rat(1, 2),
     participant_risk |-> Five,
     exchange_failure_prob |-> Rat(5, 100),
     overall_risk |-> Five,
     proceed |-> default_proceed(config)]

\* lines 130-141 of assess_strategy
scored_assessment(config, pool_impact_score, liquidity_strain_index, participant_risk, exchange_failure_prob, overall_risk) ==
    [pool_impact_score |-> pool_impact_score,
     liquidity_strain_index |-> liquidity_strain_index,
     participant_risk |-> participant_risk,
     exchange_failure_prob |-> exchange_failure_prob,
     overall_risk |-> overall_risk,
     proceed |-> RLe(overall_risk, config.max_risk_threshold)]

dimensioned_assessment(config, pool_impact_score, liquidity_strain_index, participant_risk, exchange_failure_prob) ==
    scored_assessment(config, pool_impact_score, liquidity_strain_index, participant_risk,
                      exchange_failure_prob,
                      calculate_overall_risk(pool_impact_score, liquidity_strain_index,
                                             participant_risk, exchange_failure_prob))

\* lines 108-141 of assess_strategy
base_assessment(config, pool_state, strategy) ==
    dimensioned_assessment(config,
                           calculate_pool_impact(pool_state, risk_position_size(pool_state, strategy)),
                           calculate_liquidity_strain(pool_state, strategy),
                           calculate_participant_risk(pool_state),
                           calculate_exchange_failure_prob(config, strategy))

\* An LLM response, already split into what _parse_risk_response looks for:
\* the items of its risk-factor and mitigation sections, and its lines that
\* mention "recommend" or "final", each with the words it holds and the text
\* after its first colon ([text |-> ...], or Missing without a colon).
RECURSIVE recommendation_of(_, _, _)
recommendation_of(lines, i, recommendation) ==
    IF i > Len(lines) THEN recommendation
    ELSE recommendation_of(lines, i + 1,
                           IF lines[i].rejects THEN "reject"
                           ELSE IF lines[i].proceeds THEN "proceed"
                           ELSE recommendation)

RECURSIVE justification_of(_, _, _)
justification_of(lines, i, justification) ==
    IF i > Len(lines) THEN justification
    ELSE justification_of(lines, i + 1,
                          IF lines[i].after_colon # Missing THEN lines[i].after_colon.text
                          ELSE justification)

\* _parse_risk_response
parse_risk_response(response) ==
    [additional_risk_factors |-> response.factors,
     risk_mitigation |-> response.mitigations,
     llm_recommendation |-> recommendation_of(response.final_lines, 1, "proceed"),
     llm_justification |-> justification_of(response.final_lines, 1, ""),
     llm_response |-> response]

\* dict.update
DictUpdate(d, updates) ==
    [k \in DOMAIN d \cup DOMAIN updates |-> IF k \in DOMAIN updates THEN updates[k] ELSE d[k]]

\* llm_service.assess_risk raising instead of returning
LlmRaised == [raised |-> "LLMError"]

\* lines 145-147: "if llm_assessment: assessment.update(llm_assessment)";
\* _get_llm_risk_assessment gives None for an empty answer and for an exception
with_llm_assessment(assessment, response) ==
    IF response \in {NoValue, LlmRaised} THEN assessment
    ELSE DictUpdate(assessment, parse_risk_response(response))

FinalLine(rejects, proceeds, after_colon) ==
    [rejects |-> rejects, proceeds |-> proceeds, after_colon |-> after_colon]

\* what llm_service.assess_risk may answer: None, an exception, or a text
LlmResponses ==
    { NoValue, LlmRaised,
      [factors |-> <<>>, mitigations |-> <<>>, final_lines |-> <<>>],
      [factors |-> <<"exchange outage">>, mitigations |-> <<"reduce size">>,
       final_lines |-> <<FinalLine(TRUE, FALSE, [text |-> "reject, too risky"])>>],
      [factors |-> <<>>, mitigations |-> <<>>,
       final_lines |-> <<FinalLine(FALSE, TRUE, [text |-> "proceed with care"]), FinalLine(FALSE, FALSE, Missing)>>] }

\* a config attribute that is set
Attr(v) == [value |-> v]

\* a dictionary installed as self.config: it has keys, no attributes
RiskDictConfig ==
    [max_risk_threshold |-> Missing, use_llm_for_risk |-> Missing,
     exchange_failure_probs |-> Missing]

\* ---- inputs of assess_strategy: config objects, and a dictionary
RiskConfigs ==
    [max_risk_threshold : {RInt(3), Five, RInt(7), Rat(1, 2)},
     use_llm_for_risk : {Missing, Attr(FALSE), Attr(TRUE)},
     exchange_failure_probs : {Missing, [e \in {"Binance"} |-> Rat(2, 100)]}]
    \cup {RiskDictConfig}

RiskPoolStates ==
    [total_value : {0, 1000, 100000},
     liquidity_reserve : {0, 500},
     withdrawal_forecast : {Missing, NoValue, [expected |-> 600], [expected |-> 100]},
     participant_metrics :
         {Missing, NoValue,
          [avg_holding_period_days |-> 100, withdrawal_frequency |-> "low",
           new_participants_ratio |-> RZero],
          [avg_holding_period_days |-> 0, withdrawal_frequency |-> "high",
           new_participants_ratio |-> ROne]}]

RiskStrategies ==
    { Strategy(5, 1, OppA, "medium", [max_slippage |-> ROne, timeout_seconds |-> 30]),
      Strategy(7, 60, OppC, "high", [max_slippage |-> ROne, timeout_seconds |-> 30]) }

-----------------------------------------------------------------------------
(* StrategyGenerator: opportunity detection                                 *)

Pairs == {"BTC/USDT", "ETH/USDT", "SOL/USDT"}

PartialFns(D, V) == UNION {[S -> V] : S \in SUBSET D}

\* the orders in which a Python set of pairs may be iterated
Orderings(S) ==
    {f \in [1..Cardinality(S) -> S] : \A i, j \in 1..Cardinality(S) : i # j => f[i] # f[j]}

ExchangeEntry(exchange, data) == [exchange |-> exchange, data |-> data]

\* exchange_data: empty, or three exchanges with a price for some of the pairs
ExchangeDataSets ==
    {<<>>} \cup
    { <<ExchangeEntry("Binance", b), ExchangeEntry("Coinbase", c), ExchangeEntry("Gate", g)>> :
        b \in PartialFns(Pairs, {0, 100, 101, 103}),
        c \in PartialFns(Pairs, {100, 101, 103}),
        g \in PartialFns({"BTC/USDT"}, {100, 103}) }

MinProfitThresholds == {Rat(1, 2), RInt(2)}

\* config.exchange_fees: the map AgentConfig starts with, or another one
DetectFees == {exchange_fees, OtherExchangeFees}

\* all_pairs
all_pairs(exchange_data) == UNION {DOMAIN exchange_data[i].data : i \in DOMAIN exchange_data}

\* exchanges_with_pair, with the price of the pair on each: the prices dict
prices_of(exchange_data, pair) ==
    LET with_pair == SelectSeq(exchange_data, LAMBDA e : pair \in DOMAIN e.data)
    IN  [i \in DOMAIN with_pair |-> [exchange |-> with_pair[i].exchange,
                                     price |-> with_pair[i].data[pair]]]

\* min(prices.items(), key=price): the first item of least price
RECURSIVE min_price_exchange(_)
min_price_exchange(prices) ==
    IF Len(prices) = 1 THEN prices[1]
    ELSE IF prices[Len(prices)].price < min_price_exchange(SubSeq(prices, 1, Len(prices) - 1)).price
    THEN prices[Len(prices)]
    ELSE min_price_exchange(SubSeq(prices, 1, Len(prices) - 1))

\* max(prices.items(), key=price): the first item of greatest price
RECURSIVE max_price_exchange(_)
max_price_exchange(prices) ==
    IF Len(prices) = 1 THEN prices[1]
    ELSE IF prices[Len(prices)].price > max_price_exchange(SubSeq(prices, 1, Len(prices) - 1)).price
    THEN prices[Len(prices)]
    ELSE max_price_exchange(SubSeq(prices, 1, Len(prices) - 1))

\* the opportunity dict (timestamp left out)
detected_opportunity(fees, pair, buy, sell, price_diff_pct) ==
    [pair |-> pair,
     buy_exchange |-> buy.exchange,
     buy_price |-> buy.price,
     sell_exchange |-> sell.exchange,
     sell_price |-> sell.price,
     price_diff_pct |-> price_diff_pct,
     estimated_profit_pct |->
         RSub(price_diff_pct, RAdd(fee_of(fees, buy.exchange), fee_of(fees, sell.exchange)))]

\* ((max_price - min_price) / min_price) * 100
price_diff_pct_of(buy, sell) ==
    RMul(RDiv(RInt(sell.price - buy.price), RInt(buy.price)), Hundred)

\* the body of the loop over all_pairs: the opportunities it appends for a pair
opportunities_of_pair(fees, exchange_data, pair) ==
    IF Len(prices_of(exchange_data, pair)) < 2 THEN <<>>
    ELSE IF min_price_exchange(prices_of(exchange_data, pair)).price <= 0 THEN <<>>
    ELSE IF RLt(RZero,
                detected_opportunity(fees, pair,
                    min_price_exchange(prices_of(exchange_data, pair)),
                    max_price_exchange(prices_of(exchange_data, pair)),
                    price_diff_pct_of(min_price_exchange(prices_of(exchange_data, pair)),
                                      max_price_exchange(prices_of(exchange_data, pair)))
                ).estimated_profit_pct)
    THEN <<detected_opportunity(fees, pair,
               min_price_exchange(prices_of(exchange_data, pair)),
               max_price_exchange(prices_of(exchange_data, pair)),
               price_diff_pct_of(min_price_exchange(prices_of(exchange_data, pair)),
                                 max_price_exchange(prices_of(exchange_data, pair))))>>
    ELSE <<>>

\* opportunities.sort(key=estimated_profit_pct, reverse=True): stable
RECURSIVE InsertByProfit(_, _)
InsertByProfit(sorted, o) ==
    IF sorted = <<>> THEN <<o>>
    ELSE IF RLe(o.estimated_profit_pct, sorted[Len(sorted)].estimated_profit_pct)
    THEN Append(sorted, o)
    ELSE Append(InsertByProfit(SubSeq(sorted, 1, Len(sorted) - 1), o), sorted[Len(sorted)])

RECURSIVE SortByProfit(_)
SortByProfit(opportunities) ==
    IF opportunities = <<>> THEN <<>>
    ELSE InsertByProfit(SortByProfit(SubSeq(opportunities, 1, Len(opportunities) - 1)),
                        opportunities[Len(opportunities)])

\* _detect_price_differences, the set all_pairs being walked in pair_order
detect_price_differences(fees, exchange_data, pair_order) ==
    SortByProfit(Flatten([k \in DOMAIN pair_order |->
                             opportunities_of_pair(fees, exchange_data, pair_order[k])]))

\* mutant: opportunities below the threshold are kept
above_threshold_Always(opportunity, min_profit_threshold) == TRUE

\* opp.get("estimated_profit_pct", 0) >= min_profit_threshold
above_threshold(opportunity, min_profit_threshold) ==
    RLe(min_profit_threshold, opportunity.estimated_profit_pct)

\* detect_opportunities for a non-empty exchange_data.  With a dictionary as
\* self.config the read of min_profit_threshold (or, before it, of
\* exchange_fees) raises AttributeError and the except returns []
detect_opportunities(fees, min_profit_threshold, exchange_data, pair_order) ==
    IF fees = Missing \/ min_profit_threshold = Missing THEN <<>>
    ELSE SelectSeq(detect_price_differences(fees, exchange_data, pair_order),
                   LAMBDA opp : above_threshold(opp, min_profit_threshold))

-----------------------------------------------------------------------------
(* PoolMindAgent: the workflow graph                                        *)
(*                                                                          *)
(* AgentState is a record; a key the dict does not hold is Missing, and the  *)
(* execution_plan key, which start leaves out, holds Attr(list) once set.   *)
(* The timestamp key is not modelled.  The compiled graph runs in steps:    *)
(* the nodes triggered for a step all read the state the step began with,   *)
(* and when all have returned the step ends and the nodes they triggered    *)
(* make the next step.  A node triggers the node its add_edge leads to and  *)
(* the node its conditional edges select; the builder registers both for    *)
(* detect_opportunities and for assess_risk, so that where the two differ   *)
(* the next step has two nodes.  Every node returns all the keys of         *)
(* AgentState ({**state, ...}) and AgentState declares no reducer for any   *)
(* key, so that a step of two or more nodes leaves several values for each  *)
(* key: the graph rejects such a step when it ends (a key without reducer   *)
(* takes one value per step), the exception leaves start, which logs and    *)
(* re-raises it, and the run is over.                                       *)

MaxOpportunities == 2
MaxErrors == 2      \* collaborators raise at most this many times in one run

ErrorMessage == "collaborator error"        \* str(e)

\* start: initial_state
initial_state ==
    [pool_state |-> EmptyDict,
     market_data |-> EmptyDict,
     opportunities |-> <<>>,
     decisions |-> <<>>,
     execution_plan |-> Missing,
     execution_results |-> <<>>,
     errors |-> <<>>,
     reflection |-> Missing]

\* what the collaborators of the nodes answer
ObservedPoolState == [total_value |-> 1000]
ObservedMarketData == [exchange_data |-> 1]
Observations == {[pool_state |-> ObservedPoolState, market_data |-> ObservedMarketData]}
Detections == {[i \in 1..n |-> [pair |-> i]] : n \in 0..MaxOpportunities}
Generations(opportunities) ==
    {[i \in 1..n |-> [opportunity |-> opportunities[i], risk_assessment |-> Missing]] :
        n \in 0..Len(opportunities)}
Assessments(decisions) == [1..Len(decisions) -> {[proceed |-> TRUE], [proceed |-> FALSE]}]
Optimizations(approved_decisions) ==
    {[i \in 1..n |-> [strategy |-> approved_decisions[i].opportunity]] :
        n \in 0..Len(approved_decisions)}
Executions(execution_plan) ==
    [1..Len(execution_plan) -> {[success |-> TRUE], [success |-> FALSE]}]
Reflections == {[insights |-> 1]}

\* mutant: the entry replaces the list instead of being appended to it
with_error_Replacing(state, step) ==
    [state EXCEPT !.errors = <<[step |-> step, error |-> ErrorMessage]>>]

\* state.get("errors", []) + [{"step": step, "error": str(e)}]
with_error(state, step) ==
    [state EXCEPT !.errors = Append(@, [step |-> step, error |-> ErrorMessage])]

observe_node(state, raised, observed) ==
    IF raised THEN with_error(state, "observe")
    ELSE [state EXCEPT !.pool_state = observed.pool_state,
                       !.market_data = observed.market_data]

detect_opportunities_node(state, raised, opportunities) ==
    IF raised
    THEN [with_error(state, "detect_opportunities") EXCEPT !.opportunities = <<>>]
    ELSE [state EXCEPT !.opportunities = opportunities]

handle_empty_opportunities(state) ==
    IF state.opportunities = <<>> THEN "skip" ELSE "continue"

generate_strategy_node(state, raised, decisions) ==
    IF raised
    THEN [with_error(state, "generate_strategy") EXCEPT !.decisions = <<>>]
    ELSE [state EXCEPT !.decisions = decisions]

\* zip(state["decisions"], risk_assessments)
assess_risk_node(state, raised, risk_assessments) ==
    IF raised THEN with_error(state, "assess_risk")
    ELSE [state EXCEPT !.decisions =
            [i \in 1..(IF Len(state.decisions) <= Len(risk_assessments)
                       THEN Len(state.decisions) ELSE Len(risk_assessments)) |->
                [state.decisions[i] EXCEPT !.risk_assessment = risk_assessments[i]]]]

\* decision.get("risk_assessment", {}).get("proceed", False)
decision_proceeds(decision) ==
    IF decision.risk_assessment = Missing THEN FALSE
    ELSE decision.risk_assessment.proceed

handle_risk_assessment(state) ==
    IF state.decisions = <<>> THEN "reject"
    ELSE IF \E i \in 1..Len(state.decisions) : decision_proceeds(state.decisions[i])
         THEN "proceed"
         ELSE "reject"

approved_decisions_of(state) == SelectSeq(state.decisions, decision_proceeds)

optimize_execution_node(state, raised, execution_plan) ==
    IF approved_decisions_of(state) = <<>>
    THEN [state EXCEPT !.execution_plan = Attr(<<>>)]
    ELSE IF raised
         THEN [with_error(state, "optimize_execution") EXCEPT !.execution_plan = Attr(<<>>)]
         ELSE [state EXCEPT !.execution_plan = Attr(execution_plan)]

\* not state.get("execution_plan")
no_execution_plan(state) ==
    state.execution_plan = Missing \/ state.execution_plan = Attr(<<>>)

execute_node(state, raised, results) ==
    IF no_execution_plan(state)
    THEN [state EXCEPT !.execution_results = <<>>]
    ELSE IF raised
         THEN [with_error(state, "execute") EXCEPT !.execution_results = <<>>]
         ELSE [state EXCEPT !.execution_results = results]

\* mutant: the execution results are carried into the next cycle
cleared_KeepingResults(state) ==
    [state EXCEPT !.opportunities = <<>>,
                  !.decisions = <<>>,
                  !.execution_plan = Attr(<<>>)]

cleared(state) ==
    [state EXCEPT !.opportunities = <<>>,
                  !.decisions = <<>>,
                  !.execution_plan = Attr(<<>>),
                  !.execution_results = <<>>]

\* Reflect clearing the errors list along with the transient fields
reflect_node_ClearingErrors(state, raised, reflection) ==
    IF raised THEN cleared(with_error([state EXCEPT !.errors = <<>>], "reflect"))
    ELSE cleared([state EXCEPT !.reflection = reflection, !.errors = <<>>])

reflect_node(state, raised, reflection) ==
    IF raised THEN cleared(with_error(state, "reflect"))
    ELSE cleared([state EXCEPT !.reflection = reflection])

\* builder.add_edge(node, target)
edge_of(node) ==
    CASE node = "observe" -> "detect_opportunities"
      [] node = "detect_opportunities" -> "generate_strategy"
      [] node = "generate_strategy" -> "assess_risk"
      [] node = "assess_risk" -> "optimize_execution"
      [] node = "optimize_execution" -> "execute"
      [] node = "execute" -> "reflect"
      [] node = "reflect" -> "observe"

\* builder.add_conditional_edges(node, handler, mapping)
has_conditional_edges(node) == node \in {"detect_opportunities", "assess_risk"}

conditional_edge_of(node, state) ==
    IF node = "detect_opportunities"
    THEN (IF handle_empty_opportunities(state) = "continue"
          THEN "generate_strategy" ELSE "observe")
    ELSE (IF handle_risk_assessment(state) = "proceed"
          THEN "optimize_execution" ELSE "reflect")

\* the nodes the compiled graph triggers once node has returned state
next_nodes(node, state) ==
    {edge_of(node)} \cup
    (IF has_conditional_edges(node) THEN {conditional_edge_of(node, state)} ELSE {})

\* a step none of whose nodes has returned: ran counts the nodes that have,
\* next holds the nodes they triggered, failed tells that the step was rejected
NewStep == [ran |-> 0, next |-> {}, failed |-> FALSE]

-----------------------------------------------------------------------------
(* ArbitrageMonitor: continuous mode                                        *)
(*                                                                          *)
(* run_continuous is one coroutine; monitor_pc is its position, at the top  *)
(* of the while loop or suspended at one of its awaits.  stop() and a       *)
(* KeyboardInterrupt arrive while it is suspended.                          *)

MaxMonitorOpportunities == 2

\* what check_arbitrage_opportunities returns: opportunities below and above
\* config.min_profit_threshold (0.5)
MonitorOpportunity(profit_pct) == [pair |-> "BTC/USDT", estimated_profit_pct |-> profit_pct]
MonitorOpportunityLists ==
    SeqsUpTo({MonitorOpportunity(Rat(1, 10)), MonitorOpportunity(RInt(1))},
             MaxMonitorOpportunities)
MonitorMinProfitThreshold == Rat(1, 2)

\* the AgentConfig the monitor is constructed with, and the thresholds
\* PoolMindAgent.update_config sets on it: the one it starts with, one below
\* and one above every opportunity
DefaultMonitorConfig == [min_profit_threshold |-> MonitorMinProfitThreshold]
MonitorConfigs == [min_profit_threshold : {MonitorMinProfitThreshold, Rat(1, 20), RInt(2)}]

\* opportunity.get("estimated_profit_pct", 0) >= self.config.min_profit_threshold
meets_threshold(config, opportunity) ==
    RLe(config.min_profit_threshold, opportunity.estimated_profit_pct)

\* the position of the for loop once it has passed the opportunities that are
\* not executed under the threshold in place: the next one to execute, or
\* past the end of the list
RECURSIVE for_next(_, _, _)
for_next(config, opportunities, idx) ==
    IF idx > Len(opportunities) THEN idx
    ELSE IF meets_threshold(config, opportunities[idx]) THEN idx
    ELSE for_next(config, opportunities, idx + 1)

\* what the calls of execute_arbitrage answer
StrategyAnswers == {EmptyDict, [pair |-> "BTC/USDT"]}
RiskAnswers ==
    {EmptyDict, [proceed |-> FALSE], [proceed |-> FALSE, recommendation |-> "REJECT"],
     [proceed |-> TRUE]}
PlanAnswers == {EmptyDict, [strategy_id |-> "s1"]}
ExecutionAnswers == {EmptyDict, [success |-> FALSE], [success |-> TRUE]}

\* f"{risk_assessment.get('recommendation')}": the text of None when the
\* assessment has no recommendation
recommendation_text(assessment) ==
    IF assessment = EmptyDict THEN "None" ELSE DictGet(assessment, "recommendation", "None")

\* value.get("key", False) of a dict that may be empty
flag(value, key) == IF value = EmptyDict THEN FALSE ELSE DictGet(value, key, FALSE)

\* execute_arbitrage: the dict it returns and whether it called agent.reflect;
\* notified is false when notify_trade_execution or store_trade_outcome raised.
\* After agent.execute the execution result itself is returned, failed or not.
execute_arbitrage(strategy, assessment, execution_plan, exec_result, notified) ==
    IF strategy = EmptyDict
    THEN [returned |-> [success |-> FALSE, error |-> "Failed to generate strategy"],
          reflected |-> FALSE]
    ELSE IF ~flag(assessment, "proceed")
    THEN [returned |-> [success |-> FALSE,
                        error |-> "Risk assessment rejected: " \o recommendation_text(assessment)],
          reflected |-> FALSE]
    ELSE IF execution_plan = EmptyDict
    THEN [returned |-> [success |-> FALSE, error |-> "Failed to optimize execution"],
          reflected |-> FALSE]
    ELSE IF ~flag(exec_result, "success")
    THEN [returned |-> exec_result, reflected |-> FALSE]
    ELSE IF ~notified
    THEN [returned |-> [success |-> FALSE, error |-> ErrorMessage], reflected |-> FALSE]
    ELSE [returned |-> exec_result, reflected |-> TRUE]

(* ---- PoolMindAgent.run_full_cycle and the API methods it awaits ---- *)

\* Python values of this part: None is NoValue, {} is EmptyDict, a dict is a
\* record, a list is PyList(sequence)
PyList(elements) == [list |-> elements]

\* bool(value) is False: None, {} and []
falsy(value) == value = NoValue \/ value = EmptyDict \/ value = PyList(<<>>)

\* what awaiting a collaborator gives: an exception or a value
Raised == [raised |-> TRUE, error |-> ErrorMessage]
Returned(value) == [raised |-> FALSE, value |-> value]

AttributeErrorMessage == "'NoneType' object has no attribute 'get'"
TypeErrorMessage == "object of type 'NoneType' has no len()"

ListAnswers(elements) ==
    {Raised, Returned(NoValue), Returned(PyList(<<>>))} \cup
    {Returned(PyList(<<e>>)) : e \in elements}

CycleOpportunities ==
    {[pair |-> "BTC/USDT", buy_exchange |-> "binance", sell_exchange |-> "kraken"],
     [pair |-> "ETH/USDT", buy_exchange |-> "kraken", sell_exchange |-> "binance"]}
CycleStrategies == {[strategy_id |-> "s1"], [strategy_id |-> "s2"]}
CycleAssessments ==
    {[proceed |-> TRUE, overall_risk |-> 3], [proceed |-> TRUE, overall_risk |-> 5],
     [proceed |-> FALSE, overall_risk |-> 8], [overall_risk |-> 5]}
CyclePlans == {[position_size |-> 100], [position_size |-> 200]}
CycleExecutions ==
    {[success |-> TRUE, net_profit |-> 2], [success |-> TRUE, net_profit |-> 1],
     [success |-> FALSE, error |-> "Buy order failed"], [status |-> "pending"]}
CycleReflections == {Raised, Returned(NoValue), Returned([insights |-> "kept"])}

DetectAnswers == ListAnswers(CycleOpportunities)
RecentOpportunityAnswers == ListAnswers(CycleOpportunities)
GenerateAnswers == ListAnswers(CycleStrategies \cup {NoValue})
AssessAnswers == ListAnswers(CycleAssessments \cup {NoValue})
OptimizeAnswers == ListAnswers(CyclePlans \cup {NoValue})
ExecuteAnswers == ListAnswers(CycleExecutions \cup {NoValue})

\* observe: len(opportunities) of the detected list, any exception becomes a
\* failed observation (the timestamp of the result is left out)
api_observe(detected) ==
    IF detected.raised THEN [success |-> FALSE, error |-> detected.error]
    ELSE IF detected.value = NoValue THEN [success |-> FALSE, error |-> TypeErrorMessage]
    ELSE [success |-> TRUE, opportunities_detected |-> Len(detected.value.list)]

api_get_detected_opportunities(recent) ==
    IF recent.raised THEN PyList(<<>>) ELSE recent.value

\* generate_strategy, assess_risk and optimize_execution: the first element of
\* the collaborator's list, {} for an empty answer or an exception
first_or_empty(answer) ==
    IF answer.raised THEN EmptyDict
    ELSE IF falsy(answer.value) THEN EmptyDict
    ELSE answer.value.list[1]

api_generate_strategy(answer) == first_or_empty(answer)
api_assess_risk(answer) == first_or_empty(answer)
api_optimize_execution(answer) == first_or_empty(answer)

api_execute(answer) ==
    IF answer.raised THEN [success |-> FALSE, error |-> answer.error]
    ELSE first_or_empty(answer)

api_reflect(answer) ==
    IF answer.raised THEN EmptyDict ELSE answer.value

\* the three ways a step of the try block of run_full_cycle ends
Return(value) == [kind |-> "return", value |-> value]
Raise(error) == [kind |-> "raise", error |-> error]
Continue(next, locals) == [kind |-> "continue", next |-> next, locals |-> locals]

\* locals with one more local variable bound
bind(locals, name, value) ==
    [k \in DOMAIN locals \cup {name} |-> IF k = name THEN value ELSE locals[k]]

after_observe(observe_result) ==
    IF ~DictGet(observe_result, "success", FALSE)
    THEN Return([success |-> FALSE, error |-> DictGet(observe_result, "error", "Observation failed")])
    ELSE Continue("get_detected_opportunities", [observe_result |-> observe_result])

after_get_detected_opportunities(locals, opportunities) ==
    IF falsy(opportunities)
    THEN Return([success |-> TRUE, message |-> "No opportunities detected"])
    ELSE Continue("generate_strategy", bind(locals, "opportunities", opportunities))

after_generate_strategy(locals, strategy) ==
    IF falsy(strategy)
    THEN Return([success |-> TRUE, message |-> "No viable strategy generated"])
    ELSE Continue("assess_risk", bind(locals, "strategy", strategy))

\* risk_assessment.get raises AttributeError on None
after_assess_risk(locals, assessment) ==
    IF assessment = NoValue THEN Raise(AttributeErrorMessage)
    ELSE IF ~DictGet(assessment, "proceed", FALSE)
    THEN Return([success |-> TRUE, message |-> "Strategy rejected by risk assessment"])
    ELSE Continue("optimize_execution", bind(locals, "risk_assessment", assessment))

after_optimize_execution(locals, optimized_strategy) ==
    IF falsy(optimized_strategy)
    THEN Return([success |-> TRUE, message |-> "Failed to optimize execution"])
    ELSE Continue("execute", bind(locals, "optimized_strategy", optimized_strategy))

after_execute(locals, exec_result) ==
    IF exec_result = NoValue THEN Raise(AttributeErrorMessage)
    ELSE IF ~DictGet(exec_result, "success", FALSE)
    THEN Return([success |-> TRUE, message |-> "Execution failed",
                 error |-> Attr(DictGet(exec_result, "error", NoValue))])
    ELSE Continue("reflect", bind(locals, "execution_result", exec_result))

after_reflect(locals, reflection) ==
    Return([success |-> TRUE, strategy |-> locals.strategy,
            risk_assessment |-> locals.risk_assessment,
            execution_result |-> locals.execution_result, reflection |-> reflection])

run_full_cycle_except_Reraising(step) == step

\* except Exception as e: return {"success": False, "error": str(e)}
run_full_cycle_except(step) ==
    IF step.kind = "raise" THEN Return([success |-> FALSE, error |-> step.error]) ELSE step

(* ---- RiskAssessor.assess_strategies: one assess_strategy task per strategy ---- *)

MaxAssessed == 2

\* config objects of two thresholds and a dictionary, pool states with their
\* participant metrics unset; a strategy that is None makes strategy.get raise
AssessAllConfigs ==
    {c \in RiskConfigs : /\ c.max_risk_threshold \in {RInt(3), Five, Missing}
                         /\ c.exchange_failure_probs = Missing}
AssessAllPoolStates ==
    {p \in RiskPoolStates :
        p.participant_metrics = Missing /\ p.withdrawal_forecast \in {Missing, [expected |-> 100]}}
AssessAllStrategyLists == SeqsUpTo(RiskStrategies \cup {NoValue}, MaxAssessed)

\* what the LLM answers a task: None, an exception, or a text
AssessAllLlmResponses ==
    {r \in LlmResponses : r \in {NoValue, LlmRaised} \/ r.factors # <<>>}

\* an assess_strategy task that raised, and one suspended in the LLM call with
\* the assessment it has computed
TaskRaised == [raised |-> "AttributeError"]
Suspended(assessment) == [llm |-> assessment]
is_suspended(task) == DOMAIN task = {"llm"}
is_assessment(task) == "overall_risk" \in DOMAIN task

\* the try block of assess_strategy raises: strategy.get on None (line 108),
\* self.config.max_risk_threshold on a dictionary (line 131), or
\* self.config.use_llm_for_risk on a config that does not set it (line 144)
assessment_raises(config, strategy) ==
    \/ strategy = NoValue
    \/ config.max_risk_threshold = Missing
    \/ config.use_llm_for_risk = Missing

\* assess_strategy up to its return or its first suspension: the except
\* returns _default_assessment, which raises itself when the config has no
\* max_risk_threshold; with use_llm_for_risk true the task waits for the LLM
assess_strategy(config, pool_state, strategy) ==
    IF assessment_raises(config, strategy)
    THEN IF config.max_risk_threshold = Missing THEN TaskRaised
         ELSE default_assessment(config)
    ELSE IF config.use_llm_for_risk = Attr(TRUE)
    THEN Suspended(base_assessment(config, pool_state, strategy))
    ELSE base_assessment(config, pool_state, strategy)

\* the first task that has not run: tasks of asyncio.gather start in the order
\* given, and each runs to its return or to its LLM call before the next starts
next_task(tasks) == CHOOSE i \in 1..Len(tasks) :
    tasks[i] = NoValue /\ \A j \in 1..(i - 1) : tasks[j] # NoValue

\* lines 89-92, the except of assess_strategies: a default assessment for every
\* strategy
default_assessments(config, strategies) ==
    [i \in 1..Len(strategies) |-> default_assessment(config)]

(* ---- inputs of _group_similar_executions: plans as _create_execution_plan ---- *)
(* ---- builds them, over four (pair, buy_exchange, sell_exchange) and two sizes ---- *)

MaxGrouped == 3                 \* longest execution_plans list explored

OppD == Opportunity("BTC/USDT", "Binance", "Kraken", 100, 110)

GroupPlanPool ==
    { create_execution_plan(DefaultOptimizerConfig,
                            Strategy(5, 60, opp, "medium",
                                     [max_slippage |-> ROne, timeout_seconds |-> 30]),
                            RInt(sz), MarketDetails(100, EmptyDict),
                            MarketDetails(110, EmptyDict)) :
        opp \in {OppA, OppB, OppC, OppD}, sz \in {100, 600} }

-----------------------------------------------------------------------------
(* StrategyGenerator: strategy generation                                   *)
(*                                                                         *)
(* A response of the LLM is a list of lines.  Of a line the parser reads   *)
(* whether it holds the words "position size" and the first number that a  *)
(* "%" follows, if any; the responses explored hold none of the other      *)
(* keywords, so the other keys of a parsed strategy keep their defaults.   *)
(* The timestamp key is not modelled.                                      *)

MaxGenerated == 2               \* longest opportunities list explored

ResponseLine(position_size, percent) == [position_size |-> position_size, percent |-> percent]

ResponseText(lines) == [lines |-> lines]

StrategyResponses ==
    { ResponseText(<<ResponseLine(TRUE, Attr(RInt(5)))>>),
      ResponseText(<<ResponseLine(TRUE, Attr(RInt(50)))>>),
      ResponseText(<<ResponseLine(TRUE, Attr(RZero))>>),
      ResponseText(<<ResponseLine(FALSE, Attr(RInt(50))), ResponseLine(TRUE, Missing)>>),
      ResponseText(<<ResponseLine(TRUE, Attr(RInt(5))), ResponseLine(TRUE, Attr(Rat(1, 2)))>>),
      ResponseText(<<ResponseLine(FALSE, Missing)>>) }

\* what llm_service.generate_strategy gives: None, an exception, or a text
LlmStrategyAnswers == {NoValue, LlmRaised} \cup StrategyResponses

GenerateConfigs ==
    [max_position_size_pct : {RInt(10), ROne},
     fallback_duration : {Missing, Attr(300)}]

GeneratePoolStates ==
    {[total_value |-> v] : v \in {5000, 10000, 50000, 100000, 200000}}

GenerateOpportunityLists == SeqsUpTo({OppA, OppB}, MaxGenerated)

\* lines 367-374: every line holding "position size" and a percentage sets
\* position_size_pct to float(match.group(1)); the last such line wins
RECURSIVE parse_position_size(_, _)
parse_position_size(lines, position_size_pct) ==
    IF lines = <<>> THEN position_size_pct
    ELSE parse_position_size(Tail(lines),
                             IF Head(lines).position_size /\ Head(lines).percent # Missing
                             THEN Head(lines).percent.value
                             ELSE position_size_pct)

\* _parse_strategy_response
parse_strategy_response(response, opportunity) ==
    [opportunity |-> opportunity,
     position_size_pct |-> parse_position_size(response.lines, ROne),
     risk_score |-> 5,
     execution_priority |-> 5,
     expected_slippage |-> Rat(1, 10),
     gas_settings |-> "medium",
     circuit_breakers |-> [max_slippage |-> ROne, timeout_seconds |-> 30],
     llm_response |-> response]

\* _generate_llm_strategy: None for an empty response or an exception
generate_llm_strategy(answer, opportunity) ==
    IF answer \in {NoValue, LlmRaised} THEN NoValue
    ELSE parse_strategy_response(answer, opportunity)

\* the rule table with the bracket ends taken on the lower side
fallback_strategy_EndsIncluded(pool_state, opportunity) ==
    IF pool_state.total_value <= 10000
    THEN [opportunity |-> opportunity, position_size_pct |-> Rat(1, 2), risk_score |-> 3,
          execution_priority |-> 3, expected_slippage |-> Rat(2, 10),
          gas_settings |-> "medium",
          circuit_breakers |-> [max_slippage |-> Rat(1, 2), timeout_seconds |-> 15],
          fallback |-> TRUE]
    ELSE IF pool_state.total_value <= 100000
    THEN [opportunity |-> opportunity, position_size_pct |-> ROne, risk_score |-> 5,
          execution_priority |-> 5, expected_slippage |-> Rat(15, 100),
          gas_settings |-> "medium",
          circuit_breakers |-> [max_slippage |-> Rat(3, 4), timeout_seconds |-> 20],
          fallback |-> TRUE]
    ELSE [opportunity |-> opportunity, position_size_pct |-> RInt(2), risk_score |-> 7,
          execution_priority |-> 7, expected_slippage |-> Rat(1, 10),
          gas_settings |-> "high",
          circuit_breakers |-> [max_slippage |-> ROne, timeout_seconds |-> 30],
          fallback |-> TRUE]

\* the rule table of _generate_fallback_strategies
fallback_strategy(pool_state, opportunity) ==
    IF pool_state.total_value < 10000
    THEN [opportunity |-> opportunity, position_size_pct |-> Rat(1, 2), risk_score |-> 3,
          execution_priority |-> 3, expected_slippage |-> Rat(2, 10),
          gas_settings |-> "medium",
          circuit_breakers |-> [max_slippage |-> Rat(1, 2), timeout_seconds |-> 15],
          fallback |-> TRUE]
    ELSE IF pool_state.total_value < 100000
    THEN [opportunity |-> opportunity, position_size_pct |-> ROne, risk_score |-> 5,
          execution_priority |-> 5, expected_slippage |-> Rat(15, 100),
          gas_settings |-> "medium",
          circuit_breakers |-> [max_slippage |-> Rat(3, 4), timeout_seconds |-> 20],
          fallback |-> TRUE]
    ELSE [opportunity |-> opportunity, position_size_pct |-> RInt(2), risk_score |-> 7,
          execution_priority |-> 7, expected_slippage |-> Rat(1, 10),
          gas_settings |-> "high",
          circuit_breakers |-> [max_slippage |-> ROne, timeout_seconds |-> 30],
          fallback |-> TRUE]

\* _generate_fallback_strategies
generate_fallback_strategies(pool_state, opportunities) ==
    [i \in DOMAIN opportunities |-> fallback_strategy(pool_state, opportunities[i])]

-----------------------------------------------------------------------------
(* ReflectionEngine                                                         *)
(*                                                                         *)
(* An execution result carries the keys reflect reads; seconds stands for  *)
(* the distance between the timestamps of the result and of its plan.  The *)
(* timestamp key of a reflection is not modelled.  The responses of the    *)
(* LLM explored are one-line texts, which _parse_insights_response returns *)
(* as a one-element list.                                                  *)

MaxReflected == 2               \* longest execution_results list explored
MaxReflections == 2             \* reflect calls explored

ReflectedResult(success, actual_profit, expected_profit, plan_buy_price, actual_buy_price, seconds) ==
    [success |-> success, actual_profit |-> RInt(actual_profit),
     expected_profit |-> RInt(expected_profit),
     actual_profit_pct |-> Rat(actual_profit, 10),
     plan |-> [buy_price |-> RInt(plan_buy_price), sell_price |-> RInt(110),
               position_size |-> RInt(1000)],
     buy_result |-> [price |-> RInt(actual_buy_price)],
     sell_result |-> [price |-> RInt(110)],
     seconds |-> seconds]

ReflectedFailure == [success |-> FALSE, stage |-> "buy", error |-> "Buy order failed",
                     plan |-> [buy_price |-> RInt(100), sell_price |-> RInt(110),
                               position_size |-> RInt(1000)]]

ReflectedResults ==
    { ReflectedResult(TRUE, 10, 10, 100, 100, 5),
      ReflectedResult(TRUE, 5, 10, 100, 101, 20),
      ReflectedResult(TRUE, 5, 0, 100, 100, 5),
      ReflectedFailure }

ReflectedResultLists == SeqsUpTo(ReflectedResults, MaxReflected)

ReflectConfigs ==
    [min_profit_threshold : {Rat(1, 2), ROne}, max_risk_threshold : {RInt(7)}]

\* a dictionary handed to update_config becomes self.config as it is: it has
\* keys and none of the attributes reflect reads
DictConfig == [min_profit_threshold |-> Missing, max_risk_threshold |-> Missing]

\* what update_config is called with: an AgentConfig, or a dictionary
ReflectConfigUpdates == ReflectConfigs \cup {DictConfig}

InsightAnswers == {NoValue, LlmRaised, [text |-> "Insight 1: trade smaller"]}

successful_trades_of(results) == SelectSeq(results, LAMBDA r : DictGet(r, "success", FALSE))
failed_trades_of(results) == SelectSeq(results, LAMBDA r : ~DictGet(r, "success", FALSE))

\* sum(r.get(key, 0) for r in results)
SumOf(results, key) == RSum([i \in DOMAIN results |-> DictGet(results[i], key, RZero)])

\* sum(xs) / len(xs) if xs else 0
Average(xs) == IF xs = <<>> THEN RZero ELSE RDiv(RSum(xs), RInt(Len(xs)))

\* abs(actual - planned) / planned for the trades where both prices are positive
slippages_of(trades, price_key, result_key) ==
    LET priced == SelectSeq(trades, LAMBDA r :
                      /\ RLt(RZero, DictGet(r.plan, price_key, RZero))
                      /\ RLt(RZero, DictGet(DictGet(r, result_key, [price |-> RZero]),
                                            "price", RZero)))
    IN  [i \in DOMAIN priced |->
            RDiv(RAbs(RSub(priced[i][result_key].price, priced[i].plan[price_key])),
                 priced[i].plan[price_key])]

\* failure_reasons: how many failed trades per f"{stage}: {reason}"
failure_reasons_of(failed) ==
    LET key(r) == DictGet(r, "stage", "unknown") \o ": " \o DictGet(r, "error", "Unknown error")
    IN  [k \in {key(failed[i]) : i \in DOMAIN failed} |->
            Cardinality({i \in DOMAIN failed : key(failed[i]) = k})]

\* _analyze_trades
analyze_trades(results) ==
    LET successful == successful_trades_of(results)
        failed == failed_trades_of(results)
        total_profit == SumOf(successful, "actual_profit")
        total_expected_profit == SumOf(successful, "expected_profit")
    IN  [total_trades |-> Len(results),
         successful_trades |-> Len(successful),
         failed_trades |-> Len(failed),
         success_rate |-> IF results = <<>> THEN RZero
                          ELSE Rat(Len(successful), Len(results)),
         total_profit |-> total_profit,
         total_expected_profit |-> total_expected_profit,
         profit_difference |-> RSub(total_profit, total_expected_profit),
         profit_accuracy |-> IF RLt(RZero, total_expected_profit)
                             THEN RDiv(total_profit, total_expected_profit) ELSE RZero,
         avg_buy_slippage |-> Average(slippages_of(successful, "buy_price", "buy_result")),
         avg_sell_slippage |-> Average(slippages_of(successful, "sell_price", "sell_result")),
         failure_reasons |-> failure_reasons_of(failed),
         avg_execution_time |->
             Average([i \in DOMAIN successful |-> RInt(successful[i].seconds)])]

\* _generate_insights
generate_insights(trade_analysis, answer) ==
    IF trade_analysis.successful_trades = 0
    THEN <<"No successful trades to generate insights from">>
    ELSE IF answer = NoValue THEN <<"Failed to generate insights from LLM">>
    ELSE IF answer = LlmRaised THEN <<"Error generating insights: " \o LlmRaised.raised>>
    ELSE <<answer.text>>

Adjustment(parameter, adjustment, value, reason) ==
    [parameter |-> parameter, adjustment |-> adjustment, value |-> value, reason |-> reason]

\* the four rules of _generate_strategy_adjustments, in their order
adjustment_rules(config, trade_analysis) ==
    (IF RLt(RZero, trade_analysis.avg_buy_slippage) \/ RLt(RZero, trade_analysis.avg_sell_slippage)
     THEN <<Adjustment("slippage_estimate", "increase",
                       RMul(RMax(trade_analysis.avg_buy_slippage,
                                 trade_analysis.avg_sell_slippage), Rat(12, 10)),
                       "Actual slippage higher than estimated")>>
     ELSE <<>>) \o
    (IF RLt(trade_analysis.profit_accuracy, Rat(9, 10))
     THEN <<Adjustment("profit_threshold", "increase",
                       RMul(config.min_profit_threshold,
                            RSub(RInt(2), trade_analysis.profit_accuracy)),
                       "Profit predictions less accurate than expected")>>
     ELSE <<>>) \o
    (IF RLt(RInt(10), trade_analysis.avg_execution_time)
     THEN <<Adjustment("timeout_seconds", "increase",
                       RMul(trade_analysis.avg_execution_time, Rat(15, 10)),
                       "Execution taking longer than expected")>>
     ELSE <<>>) \o
    (IF RLt(trade_analysis.success_rate, Rat(8, 10))
     THEN <<Adjustment("risk_threshold", "decrease",
                       RMul(config.max_risk_threshold, Rat(9, 10)),
                       "Low success rate indicates higher risk")>>
     ELSE <<>>)

\* a rule that fires reads an attribute the config does not have: AttributeError
adjustments_raise(config, trade_analysis) ==
    \/ /\ RLt(trade_analysis.profit_accuracy, Rat(9, 10))
       /\ config.min_profit_threshold = Missing
    \/ /\ RLt(trade_analysis.success_rate, Rat(8, 10))
       /\ config.max_risk_threshold = Missing

\* _generate_strategy_adjustments: the rules inside one try; except returns []
generate_strategy_adjustments(config, trade_analysis) ==
    IF adjustments_raise(config, trade_analysis) THEN <<>>
    ELSE adjustment_rules(config, trade_analysis)

\* _calculate_performance_metrics
calculate_performance_metrics(results) ==
    LET successful == successful_trades_of(results)
        total_profit == SumOf(successful, "actual_profit")
        total_position_size ==
            RSum([i \in DOMAIN results |-> DictGet(results[i].plan, "position_size", RZero)])
    IN  [total_profit |-> total_profit,
         roi |-> IF RLt(RZero, total_position_size)
                 THEN RMul(RDiv(total_profit, total_position_size), Hundred) ELSE RZero,
         opportunity_count |-> Len(results),
         success_rate |-> IF results = <<>> THEN RZero
                          ELSE Rat(Len(successful), Len(results)),
         avg_profit_per_trade |-> IF successful = <<>> THEN RZero
                                  ELSE RDiv(total_profit, RInt(Len(successful))),
         avg_profit_pct |-> IF successful = <<>> THEN RZero
                            ELSE RDiv(SumOf(successful, "actual_profit_pct"),
                                      RInt(Len(successful)))]

\* reflect
reflect(config, results, answer) ==
    IF results = <<>>
    THEN [insights |-> <<>>, strategy_adjustments |-> <<>>, performance_metrics |-> EmptyDict]
    ELSE [trade_analysis |-> analyze_trades(results),
          insights |-> generate_insights(analyze_trades(results), answer),
          strategy_adjustments |-> generate_strategy_adjustments(config, analyze_trades(results)),
          performance_metrics |-> calculate_performance_metrics(results)]

\* mutant: the threshold adjustments of a reflection are written to the config
config_after_reflect_Applying(config, reflection) ==
    LET adjustments == reflection.strategy_adjustments
        ValueOf(parameter, default) ==
            IF \E i \in DOMAIN adjustments : adjustments[i].parameter = parameter
            THEN adjustments[CHOOSE i \in DOMAIN adjustments :
                                 adjustments[i].parameter = parameter].value
            ELSE default
    IN  [min_profit_threshold |-> ValueOf("profit_threshold", config.min_profit_threshold),
         max_risk_threshold |-> ValueOf("risk_threshold", config.max_risk_threshold)]

\* self.config after reflect: nothing in reflect or _reflect_node assigns to it
config_after_reflect(config, reflection) == config

-----------------------------------------------------------------------------
(* PoolMindAgent: initialize, stop, reset                                   *)
(*                                                                         *)
(* The clock is the value of time.time(); it does not step back, and       *)
(* building the services and components takes at least one tick.  A        *)
(* constructor that raises during initialize is the failure input: the     *)
(* RAGService one (ChromaDB cannot be opened) leaves rag_service as it     *)
(* was, _build_state_graph leaves only graph as it was.                    *)

MaxCalls == 4                   \* calls on one agent explored
MaxTick == 2                    \* longest time one call takes, in clock ticks

InitializeFailures == {"none", "rag_service", "graph"}

\* PoolMindAgent.__init__
constructed(now) ==
    [llm_service |-> FALSE, rag_service |-> FALSE, components |-> FALSE, graph |-> FALSE,
     start_time |-> now, last_activity_time |-> now, is_initialized |-> FALSE]

\* mutant: initialize leaves start_time as it was
initialized_KeepingStartTime(self, now) ==
    [self EXCEPT !.llm_service = TRUE, !.rag_service = TRUE, !.components = TRUE,
                 !.graph = TRUE, !.is_initialized = TRUE, !.last_activity_time = now]

\* the try block of initialize run to its end
initialized(self, now) ==
    [self EXCEPT !.llm_service = TRUE, !.rag_service = TRUE, !.components = TRUE,
                 !.graph = TRUE, !.is_initialized = TRUE, !.start_time = now,
                 !.last_activity_time = now]

\* initialize: the agent it leaves and whether it raised
initialize(self, now, failure) ==
    CASE failure = "none" -> [agent |-> initialized(self, now), raised |-> FALSE]
      [] failure = "rag_service" ->
            [agent |-> [self EXCEPT !.llm_service = TRUE], raised |-> TRUE]
      [] failure = "graph" ->
            [agent |-> [self EXCEPT !.llm_service = TRUE, !.rag_service = TRUE,
                                    !.components = TRUE], raised |-> TRUE]

\* stop: RAGService.close never raises, so the flag is always cleared
stop(self) == [self EXCEPT !.is_initialized = FALSE]

\* reset: stop, then initialize; what initialize raises is raised again
reset(self, now, failure) == initialize(stop(self), now, failure)

\* observe, generate_strategy, assess_risk, optimize_execution, execute,
\* reflect and run_full_cycle: each begins with
\* self.last_activity_time = time.time(), initialized or not
ApiMethods ==
    {"observe", "generate_strategy", "assess_risk", "optimize_execution", "execute",
     "reflect", "run_full_cycle"}
touched(self, now) == [self EXCEPT !.last_activity_time = now]

\* the last call of initialize, stop or reset, how it ended and the start_time
\* the agent had before it
Called(op, raised, self) ==
    [op |-> op, raised |-> raised,
     earlier_start_time |-> IF self.graph THEN Attr(self.start_time) ELSE NoValue]

-----------------------------------------------------------------------------
(* ExchangeClient.execute_order: one leg of a plan                          *)
(*                                                                         *)
(* Time passes at the awaits of the call (the sleeps of the rate limiter    *)
(* and whatever else the event loop runs meanwhile), in whole seconds.  The *)
(* random float of the mock fill is an input.                               *)

MaxWait == 2                    \* longest time one await takes, in seconds

SupportedExchanges == {"Binance", "Coinbase", "Kraken", "Huobi", "KuCoin", "binance"}

\* the keyword arguments _execute_plan passes
OrderCalls ==
    [exchange : {"Binance", "Bitfinex"}, pair : {"BTC/USDT"}, side : {"buy", "sell"},
     amount : {RInt(600)}, price : {RZero, RInt(100)},
     max_slippage : {Rat(5, 10000), Rat(1, 100)}, timeout_seconds : {1, 30}]

\* what get_ticker answers: {} after an error, or a ticker with a price
TickerAnswers == {EmptyDict} \cup {[price |-> RInt(p)] : p \in {98, 100, 102}}

\* values of _get_random_float, which lies in [0, 1)
RandomFloats == {RZero, Rat(1, 2), Rat(999, 1000)}

order_failure(error) == [success |-> FALSE, error |-> error]

\* lines 270-285: the checks made before the first await
order_rejection(call) ==
    IF call.exchange \notin SupportedExchanges
    THEN order_failure("Exchange " \o call.exchange \o " not supported")
    ELSE IF call.side \notin {"buy", "sell"}
    THEN order_failure("Invalid order side: " \o call.side)
    ELSE NoValue

\* lines 297-300: the price asked for, or the market price when none is given
execution_price_of(call, current_price) ==
    IF RLt(RZero, call.price) THEN call.price ELSE current_price

\* lines 302-312: how far the price asked for lies on the wrong side of the market
order_slippage(call, current_price) ==
    IF call.side = "buy"
    THEN RDiv(RSub(execution_price_of(call, current_price), current_price), current_price)
    ELSE RDiv(RSub(current_price, execution_price_of(call, current_price)), current_price)

\* line 319: the mock fill, within 0.1% of the price asked for
executed_price_of(call, current_price, random) ==
    RMul(execution_price_of(call, current_price),
         RAdd(ROne, RSub(RMul(random, Rat(2, 1000)), Rat(1, 1000))))

\* lines 289-335: the answer once the ticker is known; timeout_seconds is not read
\* (the error text of a slippage failure is given without its two percentages;
\* order_id and timestamp are left out)
order_result(call, ticker, random) ==
    LET current_price == DictGet(ticker, "price", RZero) IN
    IF RLe(current_price, RZero) THEN order_failure("Invalid market price")
    ELSE IF RLt(call.max_slippage, order_slippage(call, current_price))
    THEN order_failure(IF call.side = "buy" THEN "Buy slippage exceeds maximum"
                       ELSE "Sell slippage exceeds maximum")
    ELSE [success |-> TRUE,
          executed_price |-> executed_price_of(call, current_price, random),
          exchange |-> call.exchange, pair |-> call.pair, side |-> call.side,
          amount |-> call.amount, order_type |-> "market"]

-----------------------------------------------------------------------------
(* StrategyGenerator: the fallback flag over a sequence of calls            *)

MaxFallbackCalls == 3           \* generate_strategy calls explored
MaxClock == 3                   \* clock readings explored

\* fallback_duration as AgentConfig has it (not at all) and as a timedelta of
\* two ticks set on the config object
FallbackConfigs == [fallback_duration : {Missing, Attr(2)}]

\* how many opportunities a call is given
OpportunityCounts == {1, 2}

\* _should_use_fallback: what it returns
should_use_fallback(active, until, now) == active /\ now < until

\* _should_use_fallback: _fallback_active after it
active_after_check(active, until, now) ==
    IF should_use_fallback(active, until, now) THEN active ELSE FALSE

\* _activate_fallback: the flag is set first; reading self.config.fallback_duration
\* raises AttributeError when the config has none and _fallback_until stays
activate_fallback(config, until, now) ==
    IF config.fallback_duration = Missing
    THEN [active |-> TRUE, until |-> until, raised |-> TRUE]
    ELSE [active |-> TRUE, until |-> now + config.fallback_duration.value, raised |-> FALSE]

\* the clock reading of the last _activate_fallback the log records, NoValue
\* when no call has met an error
last_error(log) ==
    IF \E e \in DOMAIN log : log[e].error
    THEN LET last == CHOOSE e \in DOMAIN log :
                         log[e].error /\ \A j \in (e + 1)..Len(log) : ~log[j].error
         IN  Attr(log[last].failed_at)
    ELSE NoValue

\* a call waiting in its loop: when it was made, the last activation before
\* it, the opportunities not yet answered and the collaborator it waits for
suspended_call(at, after, left, waits_for) ==
    [at |-> at, after |-> after, left |-> left, waits_for |-> waits_for]

\* the entry of the log for one call that ended: when it was made, the last
\* activation before it was made, the flag _should_use_fallback left, what
\* built its decisions ("table", "collaborator", or "nothing" when the call
\* raised), whether its loop met an error and when, and the flag at its end
generate_call(call, checked, built_by, error, failed_at, active) ==
    [at |-> call.at, after |-> call.after, checked |-> checked, built_by |-> built_by,
     error |-> error, failed_at |-> failed_at, active |-> active]

\* the suspended calls without call c
others(calls, c) == SubSeq(calls, 1, c - 1) \o SubSeq(calls, c + 1, Len(calls))

-----------------------------------------------------------------------------
(* poolmind_arbitrage_flow: one arbitrage cycle                             *)

MaxAttempts == 3                \* for attempt in range(3)

\* the pool state the sensor gave and the two thresholds passed in
FlowInputs ==
    [available_stx : {0, 1000}, max_trade_size_percent : {10}, min_profit_threshold : {ROne}]

\* what sensor.identify_arbitrage_opportunities puts first
FlowOpportunity(profit_percentage, required_amount, risk_score) ==
    [profit_percentage |-> profit_percentage, required_amount |-> RInt(required_amount),
     risk_score |-> risk_score]

FlowOpportunityLists ==
    { <<>>,
      <<FlowOpportunity(Rat(1, 2), 50, 5)>>,
      <<FlowOpportunity(RInt(2), 50, 5)>>,
      <<FlowOpportunity(RInt(2), 200, 5)>>,
      <<FlowOpportunity(RInt(2), 50, 7)>> }

\* a step of the agent answers Ok, answers Err, or raises
StepAnswers == {"ok", "err", "raise"}

\* the risk data an Ok of assess_risk carries
RiskDataAnswers ==
    { [recommendation |-> "proceed", risk_score |-> 4],
      [recommendation |-> "abort", risk_score |-> 9],
      [risk_score |-> 4] }

\* what poolmind_client.request_funds answers, or that it raised
FundsRaised == [raised |-> "ConnectionError"]
FundResponses ==
    { FundsRaised,
      [success |-> FALSE, message |-> "Insufficient pool balance"],
      [success |-> TRUE],
      [success |-> TRUE, data |-> [amount |-> RZero]],
      [success |-> TRUE, data |-> [amount |-> RInt(80)]] }

\* the locals of the flow before it has chosen an opportunity
initial_locals ==
    [best_opportunity |-> NoValue, risk_data |-> EmptyDict, required_amount |-> RZero,
     fund_request_success |-> FALSE, approved_amount |-> RZero]

\* one call on a collaborator: which, whether it answered without raising or
\* Err, the amount it was made with (0 for the calls that have none)
flow_call(call, ok, amount) == [call |-> call, ok |-> ok, amount |-> amount]

\* a retry loop that is left for the next step also when its attempts are used up
attempt_outcome_GoingOn(attempt, answer) ==
    IF answer = "ok" \/ attempt + 1 >= MaxAttempts THEN "success" ELSE "retry"

\* where a retry loop stands after an attempt: left by break, left with all
\* attempts used, or going round
attempt_outcome(attempt, answer) ==
    IF answer = "ok" THEN "success"
    ELSE IF attempt + 1 >= MaxAttempts THEN "exhausted" ELSE "retry"

\* lines 206-211: the risk data used when no attempt of assess_risk succeeded
default_risk_data(best_opportunity) ==
    [risk_score |-> best_opportunity.risk_score,
     recommendation |-> IF best_opportunity.risk_score <= 6 THEN "proceed" ELSE "abort"]

\* risk_data.get("recommendation") == "abort"
recommends_abort(risk_data) == DictGet(risk_data, "recommendation", "none") = "abort"

\* pool_state["available_stx"] * max_trade_size_percent / 100
max_allowed(inputs) == Rat(inputs.available_stx * inputs.max_trade_size_percent, 100)

\* 10% over the opportunity's amount, whatever the pool allows
requested_amount_Uncapped(best_opportunity, inputs) ==
    RMul(best_opportunity.required_amount, Rat(11, 10))

\* lines 222-228: 10% over the opportunity's amount, cut to max_allowed
requested_amount(best_opportunity, inputs) ==
    RMin(RMul(best_opportunity.required_amount, Rat(11, 10)), max_allowed(inputs))

\* fund_response.get("success")
funds_granted(fund_response) ==
    fund_response # FundsRaised /\ DictGet(fund_response, "success", FALSE)

\* response_data.get("amount", required_amount)
approved_amount_of(fund_response, required_amount) ==
    IF ~funds_granted(fund_response) THEN RZero
    ELSE DictGet(DictGet(fund_response, "data", EmptyDict), "amount", required_amount)

-----------------------------------------------------------------------------
(* ExchangeClient._apply_rate_limiting: concurrent callers on one exchange  *)
(*                                                                         *)
(* Time is the value of time.time() in ticks of 1/TicksPerSecond seconds;  *)
(* the rate limits explored divide TicksPerSecond.  A call runs without    *)
(* interruption from its entry to its asyncio.sleep, and from the end of   *)
(* the sleep to its return; other coroutines run during the sleep, which   *)
(* ends at its deadline or later.                                           *)

MaxCallers == 2
MaxReleases == 4
MaxElapsed == 6
TicksPerSecond == 20
DefaultRateLimit == 10          \* exchange_rate_limits.get(exchange, 10)

Callers == 1..MaxCallers

\* config.exchange_rate_limits (utils/config.py)
ConfiguredRateLimits ==
    [e \in {"Binance", "Coinbase", "Kraken", "Huobi", "KuCoin"} |->
        CASE e = "Binance" -> 10
          [] e = "Coinbase" -> 5
          [] e = "Kraken" -> 5
          [] e = "Huobi" -> 10
          [] e = "KuCoin" -> 10]

\* exchanges that have a client: config.supported_exchanges and "binance"
RateLimitedExchanges == {"Binance", "Coinbase", "Kraken", "Huobi", "KuCoin", "binance"}

rate_limit_of(exchange) ==
    IF exchange \in DOMAIN ConfiguredRateLimits THEN ConfiguredRateLimits[exchange]
    ELSE DefaultRateLimit

\* 1.0 / rate_limit, in ticks
min_time_between_requests(exchange) == TicksPerSecond \div rate_limit_of(exchange)

time_since_last_request(now, last_request) == now - last_request

must_sleep(exchange, now, last_request) ==
    time_since_last_request(now, last_request) < min_time_between_requests(exchange)

sleep_time(exchange, now, last_request) ==
    min_time_between_requests(exchange) - time_since_last_request(now, last_request)

released(caller, seen, at) == [caller |-> caller, seen |-> seen, at |-> at]

-----------------------------------------------------------------------------
(* Specifications *)

IdleSlippage ==
    /\ slip_orders = <<>>
    /\ slip_size = 0
    /\ slip_result = NoValue
    /\ slip_pc = "idle"

IdleOptimize ==
    /\ opt_config = DefaultOptimizerConfig
    /\ opt_pool_state = NoValue
    /\ opt_strategies = <<>>
    /\ sorted_strategies = <<>>
    /\ opt_idx = 0
    /\ available_capital = RZero
    /\ remaining_capital = RZero
    /\ execution_plans = <<>>
    /\ optimized_plans = NoValue
    /\ assigned = <<>>
    /\ opt_pc = "idle"

IdleCombine ==
    /\ comb_plans = <<>>
    /\ comb_result = NoValue
    /\ comb_pc = "idle"

IdleDetect ==
    /\ det_threshold = RZero
    /\ det_fees = exchange_fees
    /\ det_exchange_data = <<>>
    /\ det_opportunities = <<>>
    /\ det_pc = "idle"

IdleRisk ==
    /\ risk_config = NoValue
    /\ risk_read = NoValue
    /\ risk_pool_state = NoValue
    /\ risk_strategy = NoValue
    /\ risk_llm_response = NoValue
    /\ risk_assessment = NoValue
    /\ risk_pc = "idle"

IdleCycle ==
    /\ cycle_pc = "idle"
    /\ cycle_locals = NoValue
    /\ cycle_result = NoValue

IdleAssessAll ==
    /\ ras_config = NoValue
    /\ ras_pool_state = NoValue
    /\ ras_strategies = <<>>
    /\ ras_tasks = <<>>
    /\ ras_read = <<>>
    /\ ras_result = <<>>
    /\ ras_pc = "idle"

IdleGroup ==
    /\ grp_plans = <<>>
    /\ grp_result = NoValue
    /\ grp_pc = "idle"

IdleGenerate ==
    /\ gen_config = NoValue
    /\ gen_pool_state = NoValue
    /\ gen_opportunities = <<>>
    /\ gen_fallback = "inactive"
    /\ gen_idx = 0
    /\ gen_strategies = <<>>
    /\ gen_result = NoValue
    /\ gen_pc = "idle"

IdleReflect ==
    /\ refl_config = NoValue
    /\ refl_reflection = NoValue
    /\ refl_count = 0

IdleLifecycle ==
    /\ life_agent = NoValue
    /\ life_clock = 0
    /\ life_last = NoValue
    /\ life_calls = 0

IdleOrder ==
    /\ ord_call = NoValue
    /\ ord_elapsed = 0
    /\ ord_result = NoValue
    /\ ord_pc = "idle"

IdleFallback ==
    /\ fb_config = [fallback_duration |-> Missing]
    /\ fb_active = FALSE
    /\ fb_until = 0
    /\ fb_clock = 0
    /\ fb_calls = <<>>
    /\ fb_log = <<>>

IdleFlow ==
    /\ flow_in = NoValue
    /\ flow_pc = "idle"
    /\ flow_attempt = 0
    /\ flow_locals = NoValue
    /\ flow_calls = <<>>

IdleRate ==
    /\ rl_exchange = "Binance"
    /\ rl_clock = 0
    /\ rl_last_request = 0
    /\ rl_pc = <<>>
    /\ rl_wake = <<>>
    /\ rl_seen = <<>>
    /\ rl_released = <<>>

IdleMonitor ==
    /\ mon_config = NoValue
    /\ running = FALSE
    /\ last_check_time = 0
    /\ monitor_pc = "idle"
    /\ mon_opportunities = <<>>
    /\ mon_idx = 0
    /\ mon_cycle = NoValue

IdleGraph ==
    /\ agent_state = NoValue
    /\ graph_nodes = {}
    /\ graph_step = NoValue
    /\ graph_cycle = NoValue

IdleExecute ==
    /\ exec_config = NoValue
    /\ exec_read = <<>>
    /\ exec_finished = <<>>
    /\ exec_plans = <<>>
    /\ exec_pc = <<>>
    /\ exec_orders = <<>>
    /\ exec_buy_result = <<>>
    /\ exec_sell_result = <<>>
    /\ exec_task_result = <<>>
    /\ execution_results = NoValue
    /\ exec_main_pc = "idle"

Init_Slippage ==
    /\ slip_orders \in SeqsUpTo(Orders, MaxBookLen)
    /\ slip_size \in SlipSizes
    /\ slip_result = NoValue
    /\ slip_pc = "call"
    /\ IdleOptimize /\ IdleCombine /\ IdleExecute /\ IdleRisk /\ IdleDetect /\ IdleGraph /\ IdleMonitor
    /\ IdleCycle
    /\ IdleAssessAll
    /\ IdleGroup
    /\ IdleGenerate
    /\ IdleReflect
    /\ IdleLifecycle
    /\ IdleOrder
    /\ IdleFallback
    /\ IdleFlow
    /\ IdleRate

CalculateSlippage ==
    /\ slip_pc = "call"
    /\ slip_result' = calculate_slippage_from_orders(slip_orders, RInt(slip_size))
    /\ slip_pc' = "done"
    /\ UNCHANGED <<slip_orders, slip_size>>
    /\ UNCHANGED notSlip

Next_Slippage == CalculateSlippage

SpecSlippage == Init_Slippage /\ [][Next_Slippage]_vars

(* ---- ExecutionOptimizer.optimize, one action per loop iteration ---- *)

Init_Optimize ==
    /\ opt_config \in OptimizerConfigs
    /\ opt_pool_state \in PoolStates
    /\ opt_strategies \in StrategyLists
    /\ sorted_strategies = <<>>
    /\ opt_idx = 0
    /\ available_capital = RZero
    /\ remaining_capital = RZero
    /\ execution_plans = <<>>
    /\ optimized_plans = NoValue
    /\ assigned = <<>>
    /\ opt_pc = "start"
    /\ IdleSlippage /\ IdleCombine /\ IdleExecute /\ IdleRisk /\ IdleDetect /\ IdleGraph /\ IdleMonitor
    /\ IdleCycle
    /\ IdleAssessAll
    /\ IdleGroup
    /\ IdleGenerate
    /\ IdleReflect
    /\ IdleLifecycle
    /\ IdleOrder
    /\ IdleFallback
    /\ IdleFlow
    /\ IdleRate

\* "if not strategies: return []"
OptimizeEmpty ==
    /\ opt_pc = "start"
    /\ opt_strategies = <<>>
    /\ optimized_plans' = <<>>
    /\ opt_pc' = "done"
    /\ UNCHANGED <<opt_config, opt_pool_state, opt_strategies, sorted_strategies,
                   opt_idx, available_capital, remaining_capital, execution_plans, assigned>>
    /\ UNCHANGED notOpt

\* sort, available_capital, remaining_capital = available_capital
OptimizeStart ==
    /\ opt_pc = "start"
    /\ opt_strategies # <<>>
    /\ sorted_strategies' = SortByPriority(opt_strategies)
    /\ available_capital' = AvailableCapital(opt_pool_state)
    /\ remaining_capital' = AvailableCapital(opt_pool_state)
    /\ execution_plans' = <<>>
    /\ opt_idx' = 1
    /\ opt_pc' = "loop"
    /\ UNCHANGED <<opt_config, opt_pool_state, opt_strategies, optimized_plans, assigned>>
    /\ UNCHANGED notOpt

\* "if remaining_capital <= 0: break", then batching and return
AllocBreak ==
    /\ opt_pc = "loop"
    /\ opt_idx <= Len(sorted_strategies)
    /\ RLe(remaining_capital, RZero)
    /\ optimized_plans' = group_similar_executions(execution_plans)
    /\ opt_pc' = "done"
    /\ UNCHANGED <<opt_config, opt_pool_state, opt_strategies, sorted_strategies,
                   opt_idx, available_capital, remaining_capital, execution_plans, assigned>>
    /\ UNCHANGED notOpt

\* "if position_size <= 0: continue"
AllocSkip ==
    /\ opt_pc = "loop"
    /\ opt_idx <= Len(sorted_strategies)
    /\ RLt(RZero, remaining_capital)
    /\ LET strategy == sorted_strategies[opt_idx]
           position_size == PositionSize(remaining_capital, available_capital, strategy)
       IN  /\ RLe(position_size, RZero)
           /\ assigned' = Append(assigned, [id |-> strategy.id, position_size |-> position_size,
                                            emitted |-> FALSE])
    /\ opt_idx' = opt_idx + 1
    /\ UNCHANGED <<opt_config, opt_pool_state, opt_strategies, sorted_strategies,
                   available_capital, remaining_capital, execution_plans, optimized_plans, opt_pc>>
    /\ UNCHANGED notOpt

\* _create_execution_plan on what the exchange answers now; the plan is kept
\* and remaining_capital reduced only "if execution_plan:"
AllocPlan ==
    /\ opt_pc = "loop"
    /\ opt_idx <= Len(sorted_strategies)
    /\ RLt(RZero, remaining_capital)
    /\ \E md \in MarketScenarios :
        LET strategy == sorted_strategies[opt_idx]
            position_size == PositionSize(remaining_capital, available_capital, strategy)
            execution_plan == create_execution_plan(opt_config, strategy, position_size,
                                                    md[1], md[2])
        IN  /\ RLt(RZero, position_size)
            /\ execution_plans' = IF execution_plan # NoValue
                                  THEN Append(execution_plans, execution_plan)
                                  ELSE execution_plans
            /\ remaining_capital' = remaining_after(remaining_capital, position_size,
                                                    execution_plan)
            /\ assigned' = Append(assigned, [id |-> strategy.id, position_size |-> position_size,
                                             emitted |-> execution_plan # NoValue])
    /\ opt_idx' = opt_idx + 1
    /\ UNCHANGED <<opt_config, opt_pool_state, opt_strategies, sorted_strategies,
                   available_capital, optimized_plans, opt_pc>>
    /\ UNCHANGED notOpt

\* the loop is exhausted: batching and return
OptimizeReturn ==
    /\ opt_pc = "loop"
    /\ opt_idx > Len(sorted_strategies)
    /\ optimized_plans' = group_similar_executions(execution_plans)
    /\ opt_pc' = "done"
    /\ UNCHANGED <<opt_config, opt_pool_state, opt_strategies, sorted_strategies,
                   opt_idx, available_capital, remaining_capital, execution_plans, assigned>>
    /\ UNCHANGED notOpt

\* update_config: self.config = config_updates, whatever it is given (an
\* AgentConfig, the shared one after AgentConfig.update changed its fees, or a
\* dictionary).  Another task runs it before optimize is called, while optimize
\* is suspended in get_market_details (every read of self.config in an
\* iteration comes after those awaits), or after it has returned
OptimizerUpdateConfig ==
    /\ \E config_updates \in OptimizerConfigs :
        /\ config_updates # opt_config
        /\ opt_config' = config_updates
    /\ UNCHANGED <<opt_pool_state, opt_strategies, sorted_strategies, opt_idx, available_capital,
                   remaining_capital, execution_plans, optimized_plans, assigned, opt_pc>>
    /\ UNCHANGED notOpt

Next_Optimize ==
    \/ OptimizerUpdateConfig
    \/ OptimizeEmpty
    \/ OptimizeStart
    \/ AllocBreak
    \/ AllocSkip
    \/ AllocPlan
    \/ OptimizeReturn

SpecOptimize == Init_Optimize /\ [][Next_Optimize]_vars

(* ---- ExecutionOptimizer._combine_plans applied to a list of plans ---- *)

Init_Combine ==
    /\ comb_plans \in SeqsUpTo(CombinePlanPool, MaxCombine)
    /\ comb_result = NoValue
    /\ comb_pc = "call"
    /\ IdleSlippage /\ IdleOptimize /\ IdleExecute /\ IdleRisk /\ IdleDetect /\ IdleGraph /\ IdleMonitor
    /\ IdleCycle
    /\ IdleAssessAll
    /\ IdleGroup
    /\ IdleGenerate
    /\ IdleReflect
    /\ IdleLifecycle
    /\ IdleOrder
    /\ IdleFallback
    /\ IdleFlow
    /\ IdleRate

CombinePlans ==
    /\ comb_pc = "call"
    /\ comb_result' = combine_plans(comb_plans)
    /\ comb_pc' = "done"
    /\ UNCHANGED comb_plans
    /\ UNCHANGED notComb

Next_Combine == CombinePlans

SpecCombine == Init_Combine /\ [][Next_Combine]_vars

(* ---- ExecutionOptimizer.execute: the tasks of asyncio.gather interleave ---- *)
(* ---- at their awaits of execute_order                                   ---- *)

Init_Execute ==
    /\ exec_config = DefaultOptimizerConfig
    /\ exec_read = <<>>
    /\ exec_finished = <<>>
    /\ exec_plans \in SeqsUpTo(ExecPlanPool, MaxExecPlans)
    /\ exec_pc = <<>>
    /\ exec_orders = <<>>
    /\ exec_buy_result = <<>>
    /\ exec_sell_result = <<>>
    /\ exec_task_result = <<>>
    /\ execution_results = NoValue
    /\ exec_main_pc = "call"
    /\ IdleSlippage /\ IdleOptimize /\ IdleCombine /\ IdleRisk /\ IdleDetect /\ IdleGraph /\ IdleMonitor
    /\ IdleCycle
    /\ IdleAssessAll
    /\ IdleGroup
    /\ IdleGenerate
    /\ IdleReflect
    /\ IdleLifecycle
    /\ IdleOrder
    /\ IdleFallback
    /\ IdleFlow
    /\ IdleRate

\* update_config: self.config = config_updates, whatever it is given (an
\* AgentConfig, the shared one after AgentConfig.update changed its fees, or a
\* dictionary).  Another task runs it before execute is called or while the
\* tasks of execute are suspended in execute_order
ExecuteUpdateConfig ==
    /\ exec_main_pc # "done"
    /\ \E config_updates \in ExecConfigs :
        /\ config_updates # exec_config
        /\ exec_config' = config_updates
    /\ UNCHANGED <<exec_read, exec_finished, exec_plans, exec_pc, exec_orders, exec_buy_result,
                   exec_sell_result, exec_task_result, execution_results, exec_main_pc>>
    /\ UNCHANGED notExec

\* "if not execution_plans: return []"
ExecuteEmpty ==
    /\ exec_main_pc = "call"
    /\ exec_plans = <<>>
    /\ execution_results' = <<>>
    /\ exec_main_pc' = "done"
    /\ UNCHANGED <<exec_config, exec_read, exec_finished, exec_plans, exec_pc, exec_orders,
                   exec_buy_result, exec_sell_result, exec_task_result>>
    /\ UNCHANGED notExec

\* one _execute_plan coroutine per plan, handed to asyncio.gather
ExecuteGather ==
    /\ exec_main_pc = "call"
    /\ exec_plans # <<>>
    /\ exec_pc' = [i \in DOMAIN exec_plans |-> "start"]
    /\ exec_orders' = [i \in DOMAIN exec_plans |-> <<>>]
    /\ exec_buy_result' = [i \in DOMAIN exec_plans |-> NoValue]
    /\ exec_sell_result' = [i \in DOMAIN exec_plans |-> NoValue]
    /\ exec_task_result' = [i \in DOMAIN exec_plans |-> NoValue]
    /\ exec_read' = [i \in DOMAIN exec_plans |-> NoValue]
    /\ exec_main_pc' = "gather"
    /\ UNCHANGED <<exec_config, exec_finished, exec_plans, execution_results>>
    /\ UNCHANGED notExec

\* task i returns None for a plan without position size or buy amount
PlanInvalid(i) ==
    /\ exec_pc[i] = "start"
    /\ plan_is_invalid(exec_plans[i])
    /\ exec_pc' = [exec_pc EXCEPT ![i] = "done"]
    /\ exec_finished' = Append(exec_finished, i)
    /\ UNCHANGED <<exec_config, exec_read, exec_plans, exec_orders, exec_buy_result,
                   exec_sell_result, exec_task_result, execution_results, exec_main_pc>>
    /\ UNCHANGED notExec

\* task i sends its buy order and awaits the answer
PlanBuy(i) ==
    /\ exec_pc[i] = "start"
    /\ ~plan_is_invalid(exec_plans[i])
    /\ exec_orders' = [exec_orders EXCEPT ![i] = Append(@, buy_order(exec_plans[i]))]
    /\ exec_pc' = [exec_pc EXCEPT ![i] = "buy"]
    /\ UNCHANGED <<exec_config, exec_read, exec_finished, exec_plans, exec_buy_result,
                   exec_sell_result, exec_task_result, execution_results, exec_main_pc>>
    /\ UNCHANGED notExec

\* the buy order answers: task i returns a failure, or sends the sell order
BuyReturns(i) ==
    /\ exec_pc[i] = "buy"
    /\ \E r \in OrderResponses(exec_orders[i][1]) :
        /\ exec_buy_result' = [exec_buy_result EXCEPT ![i] = r]
        /\ IF result_after_buy(exec_plans[i], r) # NoValue
           THEN /\ exec_task_result' =
                       [exec_task_result EXCEPT ![i] = result_after_buy(exec_plans[i], r)]
                /\ exec_pc' = [exec_pc EXCEPT ![i] = "done"]
                /\ exec_finished' = Append(exec_finished, i)
                /\ UNCHANGED exec_orders
           ELSE /\ exec_orders' =
                       [exec_orders EXCEPT ![i] = Append(@, sell_order(exec_plans[i], r))]
                /\ exec_pc' = [exec_pc EXCEPT ![i] = "sell"]
                /\ UNCHANGED <<exec_task_result, exec_finished>>
    /\ UNCHANGED <<exec_config, exec_read, exec_plans, exec_sell_result, execution_results,
                   exec_main_pc>>
    /\ UNCHANGED notExec

\* the sell order answers: task i returns, after reading the fees of
\* self.config as it is now when the order succeeded
SellReturns(i) ==
    /\ exec_pc[i] = "sell"
    /\ \E r \in OrderResponses(exec_orders[i][2]) :
        /\ exec_sell_result' = [exec_sell_result EXCEPT ![i] = r]
        /\ exec_read' = IF reads_fees(r) THEN [exec_read EXCEPT ![i] = exec_config]
                        ELSE exec_read
        /\ exec_task_result' =
               [exec_task_result EXCEPT
                   ![i] = result_after_sell(exec_config, exec_plans[i], exec_buy_result[i], r)]
    /\ exec_pc' = [exec_pc EXCEPT ![i] = "done"]
    /\ exec_finished' = Append(exec_finished, i)
    /\ UNCHANGED <<exec_config, exec_plans, exec_orders, exec_buy_result, execution_results,
                   exec_main_pc>>
    /\ UNCHANGED notExec

\* gather has every task's value: None results are filtered out
ExecuteReturn ==
    /\ exec_main_pc = "gather"
    /\ \A i \in DOMAIN exec_pc : exec_pc[i] = "done"
    /\ execution_results' =
           SelectSeq(gather(exec_task_result, exec_finished), LAMBDA result : result # NoValue)
    /\ exec_main_pc' = "done"
    /\ UNCHANGED <<exec_config, exec_read, exec_finished, exec_plans, exec_pc, exec_orders,
                   exec_buy_result, exec_sell_result, exec_task_result>>
    /\ UNCHANGED notExec

Next_Execute ==
    \/ ExecuteUpdateConfig
    \/ ExecuteEmpty
    \/ ExecuteGather
    \/ \E i \in DOMAIN exec_pc : PlanInvalid(i)
    \/ \E i \in DOMAIN exec_pc : PlanBuy(i)
    \/ \E i \in DOMAIN exec_pc : BuyReturns(i)
    \/ \E i \in DOMAIN exec_pc : SellReturns(i)
    \/ ExecuteReturn

SpecExecute == Init_Execute /\ [][Next_Execute]_vars

(* ---- RiskAssessor.assess_strategy ---- *)

Init_Risk ==
    /\ risk_config \in RiskConfigs
    /\ risk_read = NoValue
    /\ risk_pool_state \in RiskPoolStates
    /\ risk_strategy \in RiskStrategies
    /\ risk_llm_response = NoValue
    /\ risk_assessment = NoValue
    /\ risk_pc = "call"
    /\ IdleSlippage /\ IdleOptimize /\ IdleCombine /\ IdleExecute /\ IdleDetect /\ IdleGraph /\ IdleMonitor
    /\ IdleCycle
    /\ IdleAssessAll
    /\ IdleGroup
    /\ IdleGenerate
    /\ IdleReflect
    /\ IdleLifecycle
    /\ IdleOrder
    /\ IdleFallback
    /\ IdleFlow
    /\ IdleRate

\* update_config: self.config = config_updates, an AgentConfig or a dictionary,
\* at any time the event loop gives it, the suspension of assess_strategy in
\* the LLM call included
RiskUpdateConfig ==
    /\ \E config_updates \in RiskConfigs :
        /\ config_updates # risk_config
        /\ risk_config' = config_updates
    /\ UNCHANGED <<risk_read, risk_pool_state, risk_strategy, risk_llm_response,
                   risk_assessment, risk_pc>>
    /\ UNCHANGED notRisk

\* reading config.max_risk_threshold raises AttributeError when the config has
\* none (it is a dictionary); the except calls _default_assessment, which reads
\* it again and raises out of assess_strategy
AssessRaises ==
    /\ risk_pc = "call"
    /\ risk_config.max_risk_threshold = Missing
    /\ risk_read' = risk_config
    /\ risk_pc' = "raised"
    /\ UNCHANGED <<risk_config, risk_pool_state, risk_strategy, risk_llm_response,
                   risk_assessment>>
    /\ UNCHANGED notRisk

\* reading config.use_llm_for_risk raises AttributeError when the config does
\* not set it: the except returns the default assessment
AssessDefault ==
    /\ risk_pc = "call"
    /\ risk_config.max_risk_threshold # Missing
    /\ risk_config.use_llm_for_risk = Missing
    /\ risk_read' = risk_config
    /\ risk_assessment' = default_assessment(risk_config)
    /\ risk_pc' = "done"
    /\ UNCHANGED <<risk_config, risk_pool_state, risk_strategy, risk_llm_response>>
    /\ UNCHANGED notRisk

\* use_llm_for_risk is false: the computed assessment is returned
AssessComputed ==
    /\ risk_pc = "call"
    /\ risk_config.max_risk_threshold # Missing
    /\ risk_config.use_llm_for_risk = Attr(FALSE)
    /\ risk_read' = risk_config
    /\ risk_assessment' = base_assessment(risk_config, risk_pool_state, risk_strategy)
    /\ risk_pc' = "done"
    /\ UNCHANGED <<risk_config, risk_pool_state, risk_strategy, risk_llm_response>>
    /\ UNCHANGED notRisk

\* use_llm_for_risk is true: the assessment is computed and the call is
\* suspended in llm_service.assess_risk
AssessAsksLlm ==
    /\ risk_pc = "call"
    /\ risk_config.max_risk_threshold # Missing
    /\ risk_config.use_llm_for_risk = Attr(TRUE)
    /\ risk_read' = risk_config
    /\ risk_assessment' = base_assessment(risk_config, risk_pool_state, risk_strategy)
    /\ risk_pc' = "llm"
    /\ UNCHANGED <<risk_config, risk_pool_state, risk_strategy, risk_llm_response>>
    /\ UNCHANGED notRisk

\* the LLM answers: None or an exception leaves the computed assessment as it
\* is, a text adds its parsed keys
AssessWithLlm ==
    /\ risk_pc = "llm"
    /\ \E response \in LlmResponses :
        /\ risk_llm_response' = response
        /\ risk_assessment' = with_llm_assessment(risk_assessment, response)
    /\ risk_pc' = "done"
    /\ UNCHANGED <<risk_config, risk_read, risk_pool_state, risk_strategy>>
    /\ UNCHANGED notRisk

Next_Risk ==
    \/ RiskUpdateConfig
    \/ AssessRaises
    \/ AssessDefault
    \/ AssessComputed
    \/ AssessAsksLlm
    \/ AssessWithLlm

SpecRisk == Init_Risk /\ [][Next_Risk]_vars

(* ---- StrategyGenerator.detect_opportunities ---- *)

Init_Detect ==
    /\ det_threshold \in MinProfitThresholds
    /\ det_fees \in DetectFees
    /\ det_exchange_data \in ExchangeDataSets
    /\ det_opportunities = <<>>
    /\ det_pc = "call"
    /\ IdleSlippage /\ IdleOptimize /\ IdleCombine /\ IdleExecute /\ IdleRisk /\ IdleGraph /\ IdleMonitor
    /\ IdleCycle
    /\ IdleAssessAll
    /\ IdleGroup
    /\ IdleGenerate
    /\ IdleReflect
    /\ IdleLifecycle
    /\ IdleOrder
    /\ IdleFallback
    /\ IdleFlow
    /\ IdleRate

\* "if not exchange_data: return []"
DetectNoData ==
    /\ det_pc = "call"
    /\ det_exchange_data = <<>>
    /\ det_opportunities' = <<>>
    /\ det_pc' = "done"
    /\ UNCHANGED <<det_threshold, det_fees, det_exchange_data>>
    /\ UNCHANGED notDet

\* price differences in some iteration order of the set of pairs, then the
\* threshold filter
DetectOpportunities ==
    /\ det_pc = "call"
    /\ det_exchange_data # <<>>
    /\ \E pair_order \in Orderings(all_pairs(det_exchange_data)) :
        det_opportunities' = detect_opportunities(det_fees, det_threshold, det_exchange_data,
                                                 pair_order)
    /\ det_pc' = "done"
    /\ UNCHANGED <<det_threshold, det_fees, det_exchange_data>>
    /\ UNCHANGED notDet

\* PoolMindAgent.update_config: AgentConfig.update sets min_profit_threshold,
\* exchange_fees or both on the config object the generator holds
\* (StrategyGenerator.update_config then turns the AgentConfig down, it is no
\* dict); nothing changes once the generator holds a dictionary of its own
AgentUpdateConfig ==
    /\ det_threshold # Missing
    /\ \E min_profit_threshold \in MinProfitThresholds, fees \in DetectFees :
        /\ <<min_profit_threshold, fees>> # <<det_threshold, det_fees>>
        /\ det_threshold' = min_profit_threshold
        /\ det_fees' = fees
    /\ UNCHANGED <<det_exchange_data, det_opportunities, det_pc>>
    /\ UNCHANGED notDet

\* StrategyGenerator.update_config with a dictionary: self.config = config_updates,
\* which has keys and no attributes
GeneratorUpdateConfig ==
    /\ det_threshold # Missing
    /\ det_threshold' = Missing
    /\ det_fees' = Missing
    /\ UNCHANGED <<det_exchange_data, det_opportunities, det_pc>>
    /\ UNCHANGED notDet

Next_Detect ==
    \/ DetectNoData
    \/ DetectOpportunities
    \/ AgentUpdateConfig
    \/ GeneratorUpdateConfig

SpecDetect == Init_Detect /\ [][Next_Detect]_vars

(* ---- PoolMindAgent.start: the compiled graph runs node after node ---- *)

Init_Graph ==
    /\ agent_state = initial_state
    /\ graph_nodes = {"observe"}
    /\ graph_step = NewStep
    /\ graph_cycle = [steps |-> <<>>, errors_before |-> <<>>, returned |-> NoValue]
    /\ IdleSlippage /\ IdleOptimize /\ IdleCombine /\ IdleExecute /\ IdleRisk /\ IdleDetect
    /\ IdleMonitor
    /\ IdleCycle
    /\ IdleAssessAll
    /\ IdleGroup
    /\ IdleGenerate
    /\ IdleReflect
    /\ IdleLifecycle
    /\ IdleOrder
    /\ IdleFallback
    /\ IdleFlow
    /\ IdleRate

MayRaise == Len(agent_state.errors) < MaxErrors

\* the entry of the history for a node that has run: its name, whether its
\* collaborator raised, and how many opportunities the state it returned holds
cycle_step(node, raised, state) ==
    [step |-> node, raised |-> raised, opportunities |-> Len(state.opportunities)]

\* node, one of the nodes of the current step, returned state.  It triggers
\* every node of next_nodes for the next step.  When it is the last node of
\* the step to return the step ends: a step of one node leaves the state that
\* node returned; a step of several nodes, each of which wrote every key, is
\* rejected and the run ends
NodeReturns(node, raised, state) ==
    /\ graph_cycle' =
         IF node = "observe"
         THEN [steps |-> <<cycle_step(node, raised, state)>>,
               errors_before |-> agent_state.errors, returned |-> state]
         ELSE [graph_cycle EXCEPT !.steps = Append(@, cycle_step(node, raised, state)),
                                  !.returned = state]
    /\ IF graph_nodes # {node}
       THEN /\ graph_nodes' = graph_nodes \ {node}
            /\ graph_step' = [graph_step EXCEPT !.ran = @ + 1,
                                                !.next = @ \cup next_nodes(node, state)]
            /\ UNCHANGED agent_state
       ELSE IF graph_step.ran = 0
       THEN /\ agent_state' = state
            /\ graph_nodes' = next_nodes(node, state)
            /\ graph_step' = NewStep
       ELSE /\ graph_nodes' = {}
            /\ graph_step' = [graph_step EXCEPT !.ran = @ + 1,
                                                !.next = @ \cup next_nodes(node, state),
                                                !.failed = TRUE]
            /\ UNCHANGED agent_state
    /\ UNCHANGED notGraph

ObserveNode ==
    /\ "observe" \in graph_nodes
    /\ \/ \E observed \in Observations :
            NodeReturns("observe", FALSE, observe_node(agent_state, FALSE, observed))
       \/ /\ MayRaise
          /\ NodeReturns("observe", TRUE, observe_node(agent_state, TRUE, NoValue))

DetectOpportunitiesNode ==
    /\ "detect_opportunities" \in graph_nodes
    /\ \/ \E opportunities \in Detections :
            NodeReturns("detect_opportunities", FALSE,
                        detect_opportunities_node(agent_state, FALSE, opportunities))
       \/ /\ MayRaise
          /\ NodeReturns("detect_opportunities", TRUE,
                         detect_opportunities_node(agent_state, TRUE, NoValue))

GenerateStrategyNode ==
    /\ "generate_strategy" \in graph_nodes
    /\ \/ \E decisions \in Generations(agent_state.opportunities) :
            NodeReturns("generate_strategy", FALSE,
                        generate_strategy_node(agent_state, FALSE, decisions))
       \/ /\ MayRaise
          /\ NodeReturns("generate_strategy", TRUE,
                         generate_strategy_node(agent_state, TRUE, NoValue))

AssessRiskNode ==
    /\ "assess_risk" \in graph_nodes
    /\ \/ \E risk_assessments \in Assessments(agent_state.decisions) :
            NodeReturns("assess_risk", FALSE,
                        assess_risk_node(agent_state, FALSE, risk_assessments))
       \/ /\ MayRaise
          /\ NodeReturns("assess_risk", TRUE, assess_risk_node(agent_state, TRUE, NoValue))

OptimizeExecutionNode ==
    /\ "optimize_execution" \in graph_nodes
    /\ \/ \E execution_plan \in Optimizations(approved_decisions_of(agent_state)) :
            NodeReturns("optimize_execution", FALSE,
                        optimize_execution_node(agent_state, FALSE, execution_plan))
       \/ /\ MayRaise
          /\ approved_decisions_of(agent_state) # <<>>
          /\ NodeReturns("optimize_execution", TRUE,
                         optimize_execution_node(agent_state, TRUE, NoValue))

ExecuteNode ==
    /\ "execute" \in graph_nodes
    /\ \/ /\ no_execution_plan(agent_state)
          /\ NodeReturns("execute", FALSE, execute_node(agent_state, FALSE, NoValue))
       \/ /\ ~no_execution_plan(agent_state)
          /\ \E results \in Executions(agent_state.execution_plan.value) :
                NodeReturns("execute", FALSE, execute_node(agent_state, FALSE, results))
       \/ /\ MayRaise
          /\ ~no_execution_plan(agent_state)
          /\ NodeReturns("execute", TRUE, execute_node(agent_state, TRUE, NoValue))

ReflectNode ==
    /\ "reflect" \in graph_nodes
    /\ \/ \E reflection \in Reflections :
            NodeReturns("reflect", FALSE, reflect_node(agent_state, FALSE, reflection))
       \/ /\ MayRaise
          /\ NodeReturns("reflect", TRUE, reflect_node(agent_state, TRUE, NoValue))

Next_Graph ==
    \/ ObserveNode
    \/ DetectOpportunitiesNode
    \/ GenerateStrategyNode
    \/ AssessRiskNode
    \/ OptimizeExecutionNode
    \/ ExecuteNode
    \/ ReflectNode

SpecGraph == Init_Graph /\ [][Next_Graph]_vars

\* the node functions of a step return, and the graph then runs the step
\* they triggered
FairSpecGraph == SpecGraph /\ WF_vars(Next_Graph)

(* ---- ArbitrageMonitor.run_continuous and stop ---- *)

Init_Monitor ==
    /\ running = FALSE
    /\ last_check_time = 0
    /\ monitor_pc = "created"
    /\ mon_config = DefaultMonitorConfig
    /\ mon_opportunities = <<>>
    /\ mon_idx = 0
    /\ mon_cycle = [in_flight |-> 0, reflected |-> FALSE, stop_signalled |-> FALSE,
                    started_after_stop |-> FALSE]
    /\ IdleSlippage /\ IdleOptimize /\ IdleCombine /\ IdleExecute /\ IdleRisk /\ IdleDetect
    /\ IdleGraph
    /\ IdleCycle
    /\ IdleAssessAll
    /\ IdleGroup
    /\ IdleGenerate
    /\ IdleReflect
    /\ IdleLifecycle
    /\ IdleOrder
    /\ IdleFallback
    /\ IdleFlow
    /\ IdleRate

\* run_continuous is called
RunContinuous ==
    /\ monitor_pc = "created"
    /\ running' = TRUE
    /\ monitor_pc' = "while"
    /\ UNCHANGED <<last_check_time, mon_config, mon_opportunities, mon_idx, mon_cycle>>
    /\ UNCHANGED notMonitor

\* while self.running: exit to the finally block
WhileExit ==
    /\ monitor_pc = "while"
    /\ ~running
    /\ monitor_pc' = "finally"
    /\ UNCHANGED <<running, last_check_time, mon_config, mon_opportunities, mon_idx, mon_cycle>>
    /\ UNCHANGED notMonitor

\* the interval has not elapsed: straight to asyncio.sleep(1)
WhileIdle ==
    /\ monitor_pc = "while"
    /\ running
    /\ last_check_time # 0
    /\ monitor_pc' = "sleep"
    /\ UNCHANGED <<running, last_check_time, mon_config, mon_opportunities, mon_idx, mon_cycle>>
    /\ UNCHANGED notMonitor

\* the interval has elapsed: a cycle starts with check_arbitrage_opportunities
CycleStart ==
    /\ monitor_pc = "while"
    /\ running
    /\ last_check_time' = 1
    /\ monitor_pc' = "check"
    /\ mon_cycle' = [mon_cycle EXCEPT !.in_flight = @ + 1,
                                      !.reflected = FALSE,
                                      !.started_after_stop = mon_cycle.stop_signalled]
    /\ UNCHANGED <<running, mon_config, mon_opportunities, mon_idx>>
    /\ UNCHANGED notMonitor

\* the for loop stands at idx: execute that opportunity, or the cycle is over
ForLoopAt(opportunities, idx, cycle) ==
    /\ mon_opportunities' = opportunities
    /\ mon_idx' = idx
    /\ IF idx > Len(opportunities)
       THEN /\ monitor_pc' = "sleep"
            /\ mon_cycle' = [cycle EXCEPT !.in_flight = @ - 1]
       ELSE /\ monitor_pc' = "execute"
            /\ mon_cycle' = cycle

\* check_arbitrage_opportunities returns: the for loop runs, under the
\* threshold self.config has now, to the first opportunity it executes
CheckReturns ==
    /\ monitor_pc = "check"
    /\ \E opportunities \in MonitorOpportunityLists :
          ForLoopAt(opportunities, for_next(mon_config, opportunities, 1), mon_cycle)
    /\ UNCHANGED <<running, last_check_time, mon_config>>
    /\ UNCHANGED notMonitor

\* execute_arbitrage returns: the for loop goes on, under the threshold
\* self.config has now, to the next opportunity it executes
ExecuteArbitrageReturns ==
    /\ monitor_pc = "execute"
    /\ \E strategy \in StrategyAnswers, assessment \in RiskAnswers,
          execution_plan \in PlanAnswers, exec_result \in ExecutionAnswers,
          notified \in BOOLEAN :
          ForLoopAt(mon_opportunities, for_next(mon_config, mon_opportunities, mon_idx + 1),
                    [mon_cycle EXCEPT !.reflected =
                        @ \/ execute_arbitrage(strategy, assessment, execution_plan,
                                               exec_result, notified).reflected])
    /\ UNCHANGED <<running, last_check_time, mon_config>>
    /\ UNCHANGED notMonitor

SleepReturns ==
    /\ monitor_pc = "sleep"
    /\ monitor_pc' = "while"
    /\ UNCHANGED <<running, last_check_time, mon_config, mon_opportunities, mon_idx, mon_cycle>>
    /\ UNCHANGED notMonitor

\* stop() is called while run_continuous is suspended at an await
MonitorStop ==
    /\ monitor_pc \in {"check", "execute", "sleep"}
    /\ running
    /\ running' = FALSE
    /\ mon_cycle' = [mon_cycle EXCEPT !.stop_signalled = @ \/ mon_cycle.in_flight > 0]
    /\ UNCHANGED <<last_check_time, monitor_pc, mon_config, mon_opportunities, mon_idx>>
    /\ UNCHANGED notMonitor

\* except KeyboardInterrupt: raised at the await where run_continuous stands,
\* whether stop() was called before or not
KeyboardInterrupted ==
    /\ monitor_pc \in {"check", "execute", "sleep"}
    /\ running' = FALSE
    /\ monitor_pc' = "finally"
    /\ mon_cycle' = [mon_cycle EXCEPT !.stop_signalled = @ \/ mon_cycle.in_flight > 0]
    /\ UNCHANGED <<last_check_time, mon_config, mon_opportunities, mon_idx>>
    /\ UNCHANGED notMonitor

\* the task running run_continuous is cancelled (what asyncio.run does on
\* Ctrl-C): CancelledError is raised at the await, neither except clause runs
\* and the finally block is entered with self.running as it was
Cancelled ==
    /\ monitor_pc \in {"check", "execute", "sleep"}
    /\ monitor_pc' = "finally"
    /\ mon_cycle' = [mon_cycle EXCEPT !.stop_signalled = @ \/ mon_cycle.in_flight > 0]
    /\ UNCHANGED <<running, last_check_time, mon_config, mon_opportunities, mon_idx>>
    /\ UNCHANGED notMonitor

\* finally: await self.agent.stop()
Finally ==
    /\ monitor_pc = "finally"
    /\ monitor_pc' = "stopped"
    /\ UNCHANGED <<running, last_check_time, mon_config, mon_opportunities, mon_idx, mon_cycle>>
    /\ UNCHANGED notMonitor

\* PoolMindAgent.update_config sets min_profit_threshold on the AgentConfig
\* the monitor shares with the agent, before run_continuous is called or
\* while it is suspended at an await
MonitorUpdateConfig ==
    /\ monitor_pc \in {"created", "check", "execute", "sleep"}
    /\ \E config_updates \in MonitorConfigs :
        /\ config_updates # mon_config
        /\ mon_config' = config_updates
    /\ UNCHANGED <<running, last_check_time, monitor_pc, mon_opportunities, mon_idx, mon_cycle>>
    /\ UNCHANGED notMonitor

Next_Monitor ==
    \/ MonitorUpdateConfig
    \/ RunContinuous
    \/ WhileExit
    \/ WhileIdle
    \/ CycleStart
    \/ CheckReturns
    \/ ExecuteArbitrageReturns
    \/ SleepReturns
    \/ MonitorStop
    \/ KeyboardInterrupted
    \/ Cancelled
    \/ Finally

SpecMonitor == Init_Monitor /\ [][Next_Monitor]_vars

(* ---- PoolMindAgent.run_full_cycle, one await at a time ---- *)

Init_Cycle ==
    /\ cycle_pc = "created"
    /\ cycle_locals = NoValue
    /\ cycle_result = NoValue
    /\ IdleSlippage /\ IdleOptimize /\ IdleCombine /\ IdleExecute /\ IdleRisk /\ IdleDetect
    /\ IdleGraph /\ IdleMonitor
    /\ IdleAssessAll
    /\ IdleGroup
    /\ IdleGenerate
    /\ IdleReflect
    /\ IdleLifecycle
    /\ IdleOrder
    /\ IdleFallback
    /\ IdleFlow
    /\ IdleRate

\* a caller awaits run_full_cycle
RunFullCycle ==
    /\ cycle_pc \in {"created", "returned", "raised"}
    /\ cycle_pc' = "observe"
    /\ cycle_locals' = EmptyDict
    /\ cycle_result' = NoValue
    /\ UNCHANGED notCycle

\* a step of the try block ended: go on, return, or leave through the handler
StepEnds(step) ==
    LET outcome == run_full_cycle_except(step) IN
    /\ IF outcome.kind = "continue"
       THEN /\ cycle_pc' = outcome.next
            /\ cycle_locals' = outcome.locals
            /\ cycle_result' = cycle_result
       ELSE /\ cycle_pc' = IF outcome.kind = "return" THEN "returned" ELSE "raised"
            /\ cycle_locals' = NoValue
            /\ cycle_result' = outcome
    /\ UNCHANGED notCycle

CycleObserveReturns ==
    /\ cycle_pc = "observe"
    /\ \E detected \in DetectAnswers : StepEnds(after_observe(api_observe(detected)))

CycleOpportunitiesReturn ==
    /\ cycle_pc = "get_detected_opportunities"
    /\ \E recent \in RecentOpportunityAnswers :
          StepEnds(after_get_detected_opportunities(cycle_locals,
                                                    api_get_detected_opportunities(recent)))

CycleGenerateReturns ==
    /\ cycle_pc = "generate_strategy"
    /\ \E answer \in GenerateAnswers :
          StepEnds(after_generate_strategy(cycle_locals, api_generate_strategy(answer)))

CycleAssessReturns ==
    /\ cycle_pc = "assess_risk"
    /\ \E answer \in AssessAnswers :
          StepEnds(after_assess_risk(cycle_locals, api_assess_risk(answer)))

CycleOptimizeReturns ==
    /\ cycle_pc = "optimize_execution"
    /\ \E answer \in OptimizeAnswers :
          StepEnds(after_optimize_execution(cycle_locals, api_optimize_execution(answer)))

CycleExecuteReturns ==
    /\ cycle_pc = "execute"
    /\ \E answer \in ExecuteAnswers :
          StepEnds(after_execute(cycle_locals, api_execute(answer)))

CycleReflectReturns ==
    /\ cycle_pc = "reflect"
    /\ \E answer \in CycleReflections :
          StepEnds(after_reflect(cycle_locals, api_reflect(answer)))

Next_Cycle ==
    \/ RunFullCycle
    \/ CycleObserveReturns
    \/ CycleOpportunitiesReturn
    \/ CycleGenerateReturns
    \/ CycleAssessReturns
    \/ CycleOptimizeReturns
    \/ CycleExecuteReturns
    \/ CycleReflectReturns

SpecCycle == Init_Cycle /\ [][Next_Cycle]_vars

(* ---- RiskAssessor.assess_strategies ---- *)

Init_AssessAll ==
    /\ ras_config \in AssessAllConfigs
    /\ ras_pool_state \in AssessAllPoolStates
    /\ ras_strategies \in AssessAllStrategyLists
    /\ ras_tasks = <<>>
    /\ ras_read = <<>>
    /\ ras_result = <<>>
    /\ ras_pc = "call"
    /\ IdleSlippage /\ IdleOptimize /\ IdleCombine /\ IdleExecute /\ IdleRisk /\ IdleDetect
    /\ IdleGraph /\ IdleMonitor /\ IdleCycle
    /\ IdleGroup
    /\ IdleGenerate
    /\ IdleReflect
    /\ IdleLifecycle
    /\ IdleOrder
    /\ IdleFallback
    /\ IdleFlow
    /\ IdleRate

\* update_config: self.config = config_updates, an AgentConfig or a dictionary:
\* before the tasks of the gather start, or once all of them have run to their
\* return or to their LLM call (they start one after the other without the
\* event loop running anything else between them)
AssessAllUpdateConfig ==
    /\ \/ ras_pc # "gather"
       \/ \A i \in 1..Len(ras_tasks) : ras_tasks[i] = NoValue
       \/ \A i \in 1..Len(ras_tasks) : ras_tasks[i] # NoValue
    /\ \E config_updates \in AssessAllConfigs :
        /\ config_updates # ras_config
        /\ ras_config' = config_updates
    /\ UNCHANGED <<ras_pool_state, ras_strategies, ras_tasks, ras_read, ras_result, ras_pc>>
    /\ UNCHANGED notAssessAll

\* if not strategies: return []
AssessStrategiesEmpty ==
    /\ ras_pc = "call"
    /\ ras_strategies = <<>>
    /\ ras_result' = <<>>
    /\ ras_pc' = "done"
    /\ UNCHANGED <<ras_config, ras_pool_state, ras_strategies, ras_tasks, ras_read>>
    /\ UNCHANGED notAssessAll

\* the tasks are created and gathered
AssessStrategiesGather ==
    /\ ras_pc = "call"
    /\ ras_strategies # <<>>
    /\ ras_tasks' = [i \in 1..Len(ras_strategies) |-> NoValue]
    /\ ras_read' = [i \in 1..Len(ras_strategies) |-> NoValue]
    /\ ras_pc' = "gather"
    /\ UNCHANGED <<ras_config, ras_pool_state, ras_strategies, ras_result>>
    /\ UNCHANGED notAssessAll

\* one assess_strategy task runs to its return, its exception or its LLM call
AssessStrategyTask ==
    /\ ras_pc = "gather"
    /\ \E i \in 1..Len(ras_tasks) : ras_tasks[i] = NoValue
    /\ LET i == next_task(ras_tasks) IN
       /\ ras_tasks' = [ras_tasks EXCEPT
                           ![i] = assess_strategy(ras_config, ras_pool_state, ras_strategies[i])]
       /\ ras_read' = [ras_read EXCEPT ![i] = ras_config]
    /\ UNCHANGED <<ras_config, ras_pool_state, ras_strategies, ras_result, ras_pc>>
    /\ UNCHANGED notAssessAll

\* the LLM answers a waiting task, which returns its assessment, enriched or not
AssessStrategyLlmAnswers ==
    /\ ras_pc = "gather"
    /\ \A i \in 1..Len(ras_tasks) : ras_tasks[i] # NoValue
    /\ \E i \in 1..Len(ras_tasks), response \in AssessAllLlmResponses :
        /\ is_suspended(ras_tasks[i])
        /\ ras_tasks' = [ras_tasks EXCEPT ![i] = with_llm_assessment(ras_tasks[i].llm, response)]
    /\ UNCHANGED <<ras_config, ras_pool_state, ras_strategies, ras_read, ras_result, ras_pc>>
    /\ UNCHANGED notAssessAll

\* a task raised: gather raises, whatever the other tasks are doing, and the
\* except of assess_strategies builds default assessments from self.config as
\* it is by then, or raises in turn
AssessStrategiesExcept ==
    /\ ras_pc = "gather"
    /\ \A i \in 1..Len(ras_tasks) : ras_tasks[i] # NoValue
    /\ \E i \in 1..Len(ras_tasks) : ras_tasks[i] = TaskRaised
    /\ IF ras_config.max_risk_threshold = Missing
       THEN ras_pc' = "raised" /\ UNCHANGED ras_result
       ELSE /\ ras_result' = default_assessments(ras_config, ras_strategies)
            /\ ras_pc' = "done"
    /\ UNCHANGED <<ras_config, ras_pool_state, ras_strategies, ras_tasks, ras_read>>
    /\ UNCHANGED notAssessAll

\* every task has returned: gather gives the results in the order of the
\* strategies
AssessStrategiesReturn ==
    /\ ras_pc = "gather"
    /\ \A i \in 1..Len(ras_tasks) : is_assessment(ras_tasks[i])
    /\ ras_result' = ras_tasks
    /\ ras_pc' = "done"
    /\ UNCHANGED <<ras_config, ras_pool_state, ras_strategies, ras_tasks, ras_read>>
    /\ UNCHANGED notAssessAll

Next_AssessAll ==
    \/ AssessAllUpdateConfig
    \/ AssessStrategiesEmpty
    \/ AssessStrategiesGather
    \/ AssessStrategyTask
    \/ AssessStrategyLlmAnswers
    \/ AssessStrategiesExcept
    \/ AssessStrategiesReturn

SpecAssessAll == Init_AssessAll /\ [][Next_AssessAll]_vars

(* ---- ExecutionOptimizer._group_similar_executions applied to a list of plans ---- *)

Init_Group ==
    /\ grp_plans \in SeqsUpTo(GroupPlanPool, MaxGrouped)
    /\ grp_result = NoValue
    /\ grp_pc = "call"
    /\ IdleSlippage /\ IdleOptimize /\ IdleCombine /\ IdleExecute /\ IdleRisk /\ IdleDetect
    /\ IdleGraph /\ IdleMonitor /\ IdleCycle /\ IdleAssessAll
    /\ IdleGenerate
    /\ IdleReflect
    /\ IdleLifecycle
    /\ IdleOrder
    /\ IdleFallback
    /\ IdleFlow
    /\ IdleRate

GroupSimilarExecutions ==
    /\ grp_pc = "call"
    /\ grp_result' = group_similar_executions(grp_plans)
    /\ grp_pc' = "done"
    /\ UNCHANGED grp_plans
    /\ UNCHANGED notGroup

Next_Group == GroupSimilarExecutions

SpecGroup == Init_Group /\ [][Next_Group]_vars

(* ---- StrategyGenerator.generate_strategy ---- *)

Init_Generate ==
    /\ gen_config \in GenerateConfigs
    /\ gen_pool_state \in GeneratePoolStates
    /\ gen_opportunities \in GenerateOpportunityLists
    /\ gen_fallback \in {"inactive", "active", "expired"}
    /\ gen_idx = 0
    /\ gen_strategies = <<>>
    /\ gen_result = NoValue
    /\ gen_pc = "call"
    /\ IdleSlippage /\ IdleOptimize /\ IdleCombine /\ IdleExecute /\ IdleRisk /\ IdleDetect
    /\ IdleGraph /\ IdleMonitor /\ IdleCycle /\ IdleAssessAll /\ IdleGroup
    /\ IdleReflect
    /\ IdleLifecycle
    /\ IdleOrder
    /\ IdleFallback
    /\ IdleFlow
    /\ IdleRate

\* self.config changes before the call, while it is suspended at an await of
\* the loop, or after it: update_config installs a dictionary (which has no
\* attribute fallback_duration), AgentConfig.update sets max_position_size_pct
\* on the shared config object
GenerateUpdateConfig ==
    /\ \E config_updates \in GenerateConfigs :
        /\ config_updates # gen_config
        /\ gen_config' = config_updates
    /\ UNCHANGED <<gen_pool_state, gen_opportunities, gen_fallback, gen_idx, gen_strategies,
                   gen_result, gen_pc>>
    /\ UNCHANGED notGenerate

\* if not opportunities: return []
GenerateEmpty ==
    /\ gen_pc = "call"
    /\ gen_opportunities = <<>>
    /\ gen_result' = <<>>
    /\ gen_pc' = "done"
    /\ UNCHANGED <<gen_config, gen_pool_state, gen_opportunities, gen_fallback, gen_idx,
                   gen_strategies>>
    /\ UNCHANGED notGenerate

\* _should_use_fallback is true: the rule table answers
GenerateFallback ==
    /\ gen_pc = "call"
    /\ gen_opportunities # <<>>
    /\ gen_fallback = "active"
    /\ gen_result' = generate_fallback_strategies(gen_pool_state, gen_opportunities)
    /\ gen_pc' = "done"
    /\ UNCHANGED <<gen_config, gen_pool_state, gen_opportunities, gen_fallback, gen_idx,
                   gen_strategies>>
    /\ UNCHANGED notGenerate

\* _should_use_fallback is false and resets _fallback_active: the loop starts
GenerateStart ==
    /\ gen_pc = "call"
    /\ gen_opportunities # <<>>
    /\ gen_fallback # "active"
    /\ gen_fallback' = "inactive"
    /\ gen_idx' = 1
    /\ gen_strategies' = <<>>
    /\ gen_pc' = "loop"
    /\ UNCHANGED <<gen_config, gen_pool_state, gen_opportunities, gen_result>>
    /\ UNCHANGED notGenerate

\* rag_service.retrieve_similar_contexts raises: the except block activates the
\* fallback, which raises AttributeError itself, after setting _fallback_active,
\* when the config has no fallback_duration
GenerateRagRaises ==
    /\ gen_pc = "loop"
    /\ gen_idx <= Len(gen_opportunities)
    /\ IF gen_config.fallback_duration = Missing
       THEN /\ gen_fallback' = "expired"
            /\ gen_result' = NoValue
            /\ gen_pc' = "raised"
       ELSE /\ gen_fallback' = "active"
            /\ gen_result' = generate_fallback_strategies(gen_pool_state, gen_opportunities)
            /\ gen_pc' = "done"
    /\ UNCHANGED <<gen_config, gen_pool_state, gen_opportunities, gen_idx, gen_strategies>>
    /\ UNCHANGED notGenerate

\* the LLM answers for one opportunity: a strategy is appended unless it is None
GenerateLlmAnswers ==
    /\ gen_pc = "loop"
    /\ gen_idx <= Len(gen_opportunities)
    /\ \E answer \in LlmStrategyAnswers :
          LET strategy == generate_llm_strategy(answer, gen_opportunities[gen_idx]) IN
          gen_strategies' = IF strategy = NoValue THEN gen_strategies
                            ELSE Append(gen_strategies, strategy)
    /\ gen_idx' = gen_idx + 1
    /\ UNCHANGED <<gen_config, gen_pool_state, gen_opportunities, gen_fallback, gen_result,
                   gen_pc>>
    /\ UNCHANGED notGenerate

\* the loop is exhausted: return strategies
GenerateReturn ==
    /\ gen_pc = "loop"
    /\ gen_idx > Len(gen_opportunities)
    /\ gen_result' = gen_strategies
    /\ gen_pc' = "done"
    /\ UNCHANGED <<gen_config, gen_pool_state, gen_opportunities, gen_fallback, gen_idx,
                   gen_strategies>>
    /\ UNCHANGED notGenerate

Next_Generate ==
    \/ GenerateUpdateConfig
    \/ GenerateEmpty
    \/ GenerateFallback
    \/ GenerateStart
    \/ GenerateRagRaises
    \/ GenerateLlmAnswers
    \/ GenerateReturn

SpecGenerate == Init_Generate /\ [][Next_Generate]_vars

(* ---- ReflectionEngine.reflect, called once per cycle by _reflect_node ---- *)

Init_Reflect ==
    /\ refl_config \in ReflectConfigs
    /\ refl_reflection = NoValue
    /\ refl_count = 0
    /\ IdleSlippage /\ IdleOptimize /\ IdleCombine /\ IdleExecute /\ IdleRisk /\ IdleDetect
    /\ IdleGraph /\ IdleMonitor /\ IdleCycle /\ IdleAssessAll /\ IdleGroup /\ IdleGenerate
    /\ IdleLifecycle
    /\ IdleOrder
    /\ IdleFallback
    /\ IdleFlow
    /\ IdleRate

\* a cycle reaches reflect
Reflect ==
    /\ refl_count < MaxReflections
    /\ \E results \in ReflectedResultLists, answer \in InsightAnswers :
          LET reflection == reflect(refl_config, results, answer) IN
          /\ refl_reflection' = reflection
          /\ refl_config' = config_after_reflect(refl_config, reflection)
    /\ refl_count' = refl_count + 1
    /\ UNCHANGED notReflect

\* update_config: self.config = config_updates, called between two reflects
\* or while reflect is suspended in the RAG or LLM service (reflect reads
\* self.config only after those awaits)
ReflectionUpdateConfig ==
    /\ \E config_updates \in ReflectConfigUpdates :
        /\ config_updates # refl_config
        /\ refl_config' = config_updates
    /\ UNCHANGED <<refl_reflection, refl_count>>
    /\ UNCHANGED notReflect

Next_Reflect ==
    \/ Reflect
    \/ ReflectionUpdateConfig

SpecReflect == Init_Reflect /\ [][Next_Reflect]_vars

(* ---- PoolMindAgent lifecycle: calls made one after another ---- *)

Init_Lifecycle ==
    /\ life_clock = 0
    /\ life_agent = constructed(0)
    /\ life_last = NoValue
    /\ life_calls = 0
    /\ IdleSlippage /\ IdleOptimize /\ IdleCombine /\ IdleExecute /\ IdleRisk /\ IdleDetect
    /\ IdleGraph /\ IdleMonitor /\ IdleCycle /\ IdleAssessAll /\ IdleGroup /\ IdleGenerate
    /\ IdleReflect
    /\ IdleOrder
    /\ IdleFallback
    /\ IdleFlow
    /\ IdleRate

Initialize ==
    /\ life_calls < MaxCalls
    /\ \E tick \in 1..MaxTick, failure \in InitializeFailures :
          LET outcome == initialize(life_agent, life_clock + tick, failure) IN
          /\ life_clock' = life_clock + tick
          /\ life_agent' = outcome.agent
          /\ life_last' = Called("initialize", outcome.raised, life_agent)
    /\ life_calls' = life_calls + 1
    /\ UNCHANGED notLifecycle

Stop ==
    /\ life_calls < MaxCalls
    /\ \E tick \in 0..MaxTick :
          life_clock' = life_clock + tick
    /\ life_agent' = stop(life_agent)
    /\ life_last' = Called("stop", FALSE, life_agent)
    /\ life_calls' = life_calls + 1
    /\ UNCHANGED notLifecycle

Reset ==
    /\ life_calls < MaxCalls
    /\ \E tick \in 1..MaxTick, failure \in InitializeFailures :
          LET outcome == reset(life_agent, life_clock + tick, failure) IN
          /\ life_clock' = life_clock + tick
          /\ life_agent' = outcome.agent
          /\ life_last' = Called("reset", outcome.raised, life_agent)
    /\ life_calls' = life_calls + 1
    /\ UNCHANGED notLifecycle

\* one of the API methods is called
ApiCall ==
    /\ life_calls < MaxCalls
    /\ \E tick \in 0..MaxTick, method \in ApiMethods :
          /\ life_clock' = life_clock + tick
          /\ life_agent' = touched(life_agent, life_clock + tick)
    /\ life_calls' = life_calls + 1
    /\ UNCHANGED life_last
    /\ UNCHANGED notLifecycle

Next_Lifecycle == Initialize \/ Stop \/ Reset \/ ApiCall

SpecLifecycle == Init_Lifecycle /\ [][Next_Lifecycle]_vars

(* ---- ExchangeClient.execute_order, step by step at its awaits ---- *)

Init_Order ==
    /\ ord_call \in OrderCalls
    /\ ord_elapsed = 0
    /\ ord_result = NoValue
    /\ ord_pc = "call"
    /\ IdleSlippage /\ IdleOptimize /\ IdleCombine /\ IdleExecute /\ IdleRisk /\ IdleDetect
    /\ IdleGraph /\ IdleMonitor /\ IdleCycle /\ IdleAssessAll /\ IdleGroup /\ IdleGenerate
    /\ IdleReflect /\ IdleLifecycle
    /\ IdleFallback
    /\ IdleFlow
    /\ IdleRate

\* an unsupported exchange or side is answered at once
OrderRejected ==
    /\ ord_pc = "call"
    /\ order_rejection(ord_call) # NoValue
    /\ ord_result' = order_rejection(ord_call)
    /\ ord_pc' = "done"
    /\ UNCHANGED <<ord_call, ord_elapsed>>
    /\ UNCHANGED notOrder

\* await self._apply_rate_limiting(exchange)
OrderRateLimited ==
    /\ ord_pc = "call"
    /\ order_rejection(ord_call) = NoValue
    /\ \E wait \in 0..MaxWait : ord_elapsed' = ord_elapsed + wait
    /\ ord_pc' = "ticker"
    /\ UNCHANGED <<ord_call, ord_result>>
    /\ UNCHANGED notOrder

\* await self.get_ticker(...) answers and the call runs to its return
OrderTickerReturns ==
    /\ ord_pc = "ticker"
    /\ \E wait \in 0..MaxWait : ord_elapsed' = ord_elapsed + wait
    /\ \E ticker \in TickerAnswers, random \in RandomFloats :
          ord_result' = order_result(ord_call, ticker, random)
    /\ ord_pc' = "done"
    /\ UNCHANGED ord_call
    /\ UNCHANGED notOrder

Next_Order == OrderRejected \/ OrderRateLimited \/ OrderTickerReturns

SpecOrder == Init_Order /\ [][Next_Order]_vars

(* ---- StrategyGenerator.generate_strategy called repeatedly, opportunities not empty ---- *)

Init_Fallback ==
    /\ fb_config \in FallbackConfigs
    /\ fb_active = FALSE
    /\ fb_until = 0
    /\ fb_clock = 0
    /\ fb_calls = <<>>
    /\ fb_log = <<>>
    /\ IdleSlippage /\ IdleOptimize /\ IdleCombine /\ IdleExecute /\ IdleRisk /\ IdleDetect
    /\ IdleGraph /\ IdleMonitor /\ IdleCycle /\ IdleAssessAll /\ IdleGroup /\ IdleGenerate
    /\ IdleReflect /\ IdleLifecycle /\ IdleOrder
    /\ IdleFlow
    /\ IdleRate

\* self.config changes, between two calls or while calls wait for a
\* collaborator: update_config installs a dictionary (which has no attribute
\* fallback_duration), or the attribute is set on the config object
FallbackUpdateConfig ==
    /\ \E config_updates \in FallbackConfigs :
        /\ config_updates # fb_config
        /\ fb_config' = config_updates
    /\ UNCHANGED <<fb_active, fb_until, fb_clock, fb_calls, fb_log>>
    /\ UNCHANGED notFallback

\* time passes, between two calls or while calls wait for a collaborator
FallbackTick ==
    /\ fb_clock < MaxClock
    /\ fb_clock' = fb_clock + 1
    /\ UNCHANGED <<fb_config, fb_active, fb_until, fb_calls, fb_log>>
    /\ UNCHANGED notFallback

\* a call is made while _should_use_fallback is true: the decisions come from
\* the rule table, which is built without waiting for anything
GenerateFromTable ==
    /\ Len(fb_log) + Len(fb_calls) < MaxFallbackCalls
    /\ should_use_fallback(fb_active, fb_until, fb_clock)
    /\ fb_log' = Append(fb_log,
           generate_call(suspended_call(fb_clock, last_error(fb_log), 0, "nothing"),
                         fb_active, "table", FALSE, fb_clock, fb_active))
    /\ UNCHANGED <<fb_config, fb_active, fb_until, fb_clock, fb_calls>>
    /\ UNCHANGED notFallback

\* a call is made while _should_use_fallback is false: the flag is cleared and
\* the loop asks rag_service for the first opportunity
GenerateStarts ==
    /\ Len(fb_log) + Len(fb_calls) < MaxFallbackCalls
    /\ ~should_use_fallback(fb_active, fb_until, fb_clock)
    /\ fb_active' = active_after_check(fb_active, fb_until, fb_clock)
    /\ \E n \in OpportunityCounts :
        fb_calls' = Append(fb_calls, suspended_call(fb_clock, last_error(fb_log), n, "rag"))
    /\ UNCHANGED <<fb_config, fb_until, fb_clock, fb_log>>
    /\ UNCHANGED notFallback

\* rag_service answers a waiting call, which goes on to ask the LLM
RagAnswers ==
    /\ \E c \in DOMAIN fb_calls :
        /\ fb_calls[c].waits_for = "rag"
        /\ fb_calls' = [fb_calls EXCEPT ![c].waits_for = "llm"]
    /\ UNCHANGED <<fb_config, fb_active, fb_until, fb_clock, fb_log>>
    /\ UNCHANGED notFallback

\* the LLM answers (or fails, which _generate_llm_strategy catches) and there
\* are opportunities left: the loop asks rag_service for the next one
LlmAnswers ==
    /\ \E c \in DOMAIN fb_calls :
        /\ fb_calls[c].waits_for = "llm"
        /\ fb_calls[c].left > 1
        /\ fb_calls' = [fb_calls EXCEPT ![c].waits_for = "rag", ![c].left = @ - 1]
    /\ UNCHANGED <<fb_config, fb_active, fb_until, fb_clock, fb_log>>
    /\ UNCHANGED notFallback

\* the LLM answers for the last opportunity: the call returns what the
\* collaborators built, whatever the flag has become meanwhile
GenerateFromCollaborator ==
    /\ \E c \in DOMAIN fb_calls :
        /\ fb_calls[c].waits_for = "llm"
        /\ fb_calls[c].left = 1
        /\ fb_log' = Append(fb_log,
               generate_call(fb_calls[c], FALSE, "collaborator", FALSE, fb_calls[c].at,
                             fb_active))
        /\ fb_calls' = others(fb_calls, c)
    /\ UNCHANGED <<fb_config, fb_active, fb_until, fb_clock>>
    /\ UNCHANGED notFallback

\* rag_service raises in the loop of a call: the except block runs
\* _activate_fallback, then the rule table unless that raised
GenerateFails ==
    /\ \E c \in DOMAIN fb_calls :
        LET activated == activate_fallback(fb_config, fb_until, fb_clock) IN
        /\ fb_calls[c].waits_for = "rag"
        /\ fb_active' = activated.active
        /\ fb_until' = activated.until
        /\ fb_log' = Append(fb_log,
               generate_call(fb_calls[c], FALSE,
                             IF activated.raised THEN "nothing" ELSE "table",
                             TRUE, fb_clock, activated.active))
        /\ fb_calls' = others(fb_calls, c)
    /\ UNCHANGED <<fb_config, fb_clock>>
    /\ UNCHANGED notFallback

Next_Fallback ==
    \/ FallbackUpdateConfig
    \/ FallbackTick
    \/ GenerateFromTable
    \/ GenerateStarts
    \/ RagAnswers
    \/ LlmAnswers
    \/ GenerateFromCollaborator
    \/ GenerateFails

SpecFallback == Init_Fallback /\ [][Next_Fallback]_vars

(* ---- poolmind_arbitrage_flow, from its first retry loop to its return ---- *)

Init_Flow ==
    /\ flow_in \in FlowInputs
    /\ flow_pc = "analysis"
    /\ flow_attempt = 0
    /\ flow_locals = initial_locals
    /\ flow_calls = <<>>
    /\ IdleSlippage /\ IdleOptimize /\ IdleCombine /\ IdleExecute /\ IdleRisk /\ IdleDetect
    /\ IdleGraph /\ IdleMonitor /\ IdleCycle /\ IdleAssessAll /\ IdleGroup /\ IdleGenerate
    /\ IdleReflect /\ IdleLifecycle /\ IdleOrder /\ IdleFallback
    /\ IdleRate

\* one attempt of a retry loop that ends the cycle when it is exhausted
FlowAttempt(pc, call, amount, next_pc) ==
    /\ flow_pc = pc
    /\ \E answer \in StepAnswers :
        /\ flow_calls' = Append(flow_calls, flow_call(call, answer = "ok", amount))
        /\ flow_pc' = CASE attempt_outcome(flow_attempt, answer) = "success" -> next_pc
                        [] attempt_outcome(flow_attempt, answer) = "exhausted" -> "ended"
                        [] OTHER -> pc
        /\ flow_attempt' = IF attempt_outcome(flow_attempt, answer) = "retry"
                           THEN flow_attempt + 1 ELSE 0
    /\ UNCHANGED <<flow_in, flow_locals>>
    /\ UNCHANGED notFlow

\* Step 1: agent.analyze_market()
FlowAnalyzeMarket == FlowAttempt("analysis", "analyze_market", RZero, "strategy")

\* Step 2: agent.generate_arbitrage_strategy(market_analysis_output)
FlowGenerateStrategy ==
    FlowAttempt("strategy", "generate_arbitrage_strategy", RZero, "identify")

\* Step 3: the best opportunity, or the cycle ends for want of one above
\* min_profit_threshold
FlowIdentify ==
    /\ flow_pc = "identify"
    /\ \E opportunities \in FlowOpportunityLists :
        /\ flow_calls' = Append(flow_calls,
                                flow_call("identify_arbitrage_opportunities", TRUE, RZero))
        /\ IF opportunities = <<>>
           THEN flow_pc' = "ended" /\ UNCHANGED flow_locals
           ELSE /\ flow_locals' = [flow_locals EXCEPT !.best_opportunity = opportunities[1]]
                /\ flow_pc' = IF RLt(opportunities[1].profit_percentage,
                                     flow_in.min_profit_threshold)
                              THEN "ended" ELSE "risk"
    /\ UNCHANGED <<flow_in, flow_attempt>>
    /\ UNCHANGED notFlow

\* Step 4: agent.assess_risk(opportunity_data); the default evaluation when
\* every attempt failed; the cycle ends on recommendation "abort"
FlowAssessRisk ==
    /\ flow_pc = "risk"
    /\ \E answer \in StepAnswers, data \in RiskDataAnswers :
        LET outcome == attempt_outcome(flow_attempt, answer)
            risk_data == IF outcome = "success" THEN data
                         ELSE default_risk_data(flow_locals.best_opportunity)
        IN  /\ flow_calls' = Append(flow_calls, flow_call("assess_risk", answer = "ok", RZero))
            /\ IF outcome = "retry"
               THEN /\ flow_attempt' = flow_attempt + 1
                    /\ UNCHANGED <<flow_pc, flow_locals>>
               ELSE /\ flow_attempt' = 0
                    /\ flow_locals' = [flow_locals EXCEPT !.risk_data = risk_data]
                    /\ flow_pc' = IF recommends_abort(risk_data) THEN "ended" ELSE "funds"
    /\ UNCHANGED flow_in
    /\ UNCHANGED notFlow

\* Step 5: poolmind_client.request_funds for the capped amount
FlowRequestFunds ==
    /\ flow_pc = "funds"
    /\ \E fund_response \in FundResponses :
        LET required_amount == requested_amount(flow_locals.best_opportunity, flow_in)
            approved_amount == approved_amount_of(fund_response, required_amount)
        IN  /\ flow_calls' = Append(flow_calls,
                   flow_call("request_funds", funds_granted(fund_response), required_amount))
            /\ flow_locals' = [flow_locals EXCEPT
                                  !.required_amount = required_amount,
                                  !.fund_request_success = funds_granted(fund_response),
                                  !.approved_amount = approved_amount]
            /\ flow_pc' = IF ~funds_granted(fund_response) \/ RLe(approved_amount, RZero)
                          THEN "ended" ELSE "trade"
    /\ UNCHANGED <<flow_in, flow_attempt>>
    /\ UNCHANGED notFlow

\* Step 6: agent.execute_arbitrage_trade(strategy_details, approved_amount)
FlowExecuteTrade ==
    FlowAttempt("trade", "execute_arbitrage_trade", flow_locals.approved_amount, "save")

\* Steps 7 and 8: the results are computed and the strategy is saved
FlowSave ==
    /\ flow_pc = "save"
    /\ \E saved \in BOOLEAN :
        flow_calls' = Append(flow_calls, flow_call("insert_strategy_and_result", saved, RZero))
    /\ flow_pc' = "done"
    /\ UNCHANGED <<flow_in, flow_attempt, flow_locals>>
    /\ UNCHANGED notFlow

Next_Flow ==
    \/ FlowAnalyzeMarket
    \/ FlowGenerateStrategy
    \/ FlowIdentify
    \/ FlowAssessRisk
    \/ FlowRequestFunds
    \/ FlowExecuteTrade
    \/ FlowSave

SpecFlow == Init_Flow /\ [][Next_Flow]_vars

(* ---- ExchangeClient._apply_rate_limiting, the callers interleaved at asyncio.sleep ---- *)

\* the client was built some time after the epoch: last_request is 0 and
\* time.time() is more than any gap away from it
Init_Rate ==
    /\ rl_exchange \in RateLimitedExchanges
    /\ rl_clock = TicksPerSecond
    /\ rl_last_request = 0
    /\ rl_pc = [c \in Callers |-> "idle"]
    /\ rl_wake = [c \in Callers |-> 0]
    /\ rl_seen = [c \in Callers |-> 0]
    /\ rl_released = <<>>
    /\ IdleSlippage /\ IdleOptimize /\ IdleCombine /\ IdleExecute /\ IdleRisk /\ IdleDetect
    /\ IdleGraph /\ IdleMonitor /\ IdleCycle /\ IdleAssessAll /\ IdleGroup /\ IdleGenerate
    /\ IdleReflect /\ IdleLifecycle /\ IdleOrder
    /\ IdleFallback /\ IdleFlow

\* time passes
RateTick ==
    /\ rl_clock < TicksPerSecond + MaxElapsed
    /\ rl_clock' = rl_clock + 1
    /\ UNCHANGED <<rl_exchange, rl_last_request, rl_pc, rl_wake, rl_seen, rl_released>>
    /\ UNCHANGED notRate

\* a call that finds the last request far enough back: it does not sleep,
\* stamps last_request and returns
ApplyWithoutSleep ==
    \E c \in Callers :
        /\ rl_pc[c] = "idle"
        /\ Len(rl_released) < MaxReleases
        /\ ~must_sleep(rl_exchange, rl_clock, rl_last_request)
        /\ rl_last_request' = rl_clock
        /\ rl_released' = Append(rl_released, released(c, rl_last_request, rl_clock))
        /\ UNCHANGED <<rl_exchange, rl_clock, rl_pc, rl_wake, rl_seen>>
        /\ UNCHANGED notRate

\* a call that finds the last request too close: it awaits asyncio.sleep for
\* the rest of the gap
ApplySleeps ==
    \E c \in Callers :
        /\ rl_pc[c] = "idle"
        /\ Len(rl_released) < MaxReleases
        /\ must_sleep(rl_exchange, rl_clock, rl_last_request)
        /\ rl_pc' = [rl_pc EXCEPT ![c] = "sleeping"]
        /\ rl_wake' = [rl_wake EXCEPT ![c] = rl_clock + sleep_time(rl_exchange, rl_clock, rl_last_request)]
        /\ rl_seen' = [rl_seen EXCEPT ![c] = rl_last_request]
        /\ UNCHANGED <<rl_exchange, rl_clock, rl_last_request, rl_released>>
        /\ UNCHANGED notRate

\* the sleep is over: the call stamps last_request and returns
ApplyWakes ==
    \E c \in Callers :
        /\ rl_pc[c] = "sleeping"
        /\ rl_clock >= rl_wake[c]
        /\ rl_last_request' = rl_clock
        /\ rl_released' = Append(rl_released, released(c, rl_seen[c], rl_clock))
        /\ rl_pc' = [rl_pc EXCEPT ![c] = "idle"]
        /\ UNCHANGED <<rl_exchange, rl_clock, rl_wake, rl_seen>>
        /\ UNCHANGED notRate

Next_Rate ==
    \/ RateTick
    \/ ApplyWithoutSleep
    \/ ApplySleeps
    \/ ApplyWakes

SpecRate == Init_Rate /\ [][Next_Rate]_vars

-----------------------------------------------------------------------------
(* Claims                                                                   *)

\* ---- helpers of the claims about optimize

PlanSizes(plans) == [i \in DOMAIN plans |-> plans[i].position_size]

\* the position sizes of the iterations that emitted a plan
EmittedSizes(log) ==
    LET kept == SelectSeq(log, LAMBDA a : a.emitted) IN [i \in DOMAIN kept |-> kept[i].position_size]

\* two decisions, both with position_size_pct = 60, against available_capital = 1000
TwoSixties ==
    /\ Len(opt_strategies) = 2
    /\ \A i \in 1..2 : opt_strategies[i].position_size_pct = 60
    /\ AvailableCapital(opt_pool_state) = RInt(1000)

\* the input position of the decision that comes first in priority order
FirstByPriority ==
    CHOOSE i \in DOMAIN opt_strategies :
        \A j \in DOMAIN opt_strategies :
            \/ opt_strategies[j].execution_priority < opt_strategies[i].execution_priority
            \/ (opt_strategies[j].execution_priority = opt_strategies[i].execution_priority /\ i <= j)

\* C1: at every step of the allocation walk the position sizes of the plans
\* emitted so far sum to at most max(0, total_value - liquidity_reserve), and
\* so do the position sizes of the returned, batched plans.
C1_AllocationWithinCapital ==
    /\ RLe(RSum(PlanSizes(execution_plans)), AvailableCapital(opt_pool_state))
    /\ RLe(RSum(EmittedSizes(assigned)), AvailableCapital(opt_pool_state))
    /\ opt_pc = "done" =>
           RLe(RSum(PlanSizes(optimized_plans)), AvailableCapital(opt_pool_state))

\* C1 witness: two plans were emitted and batched, the second one capped by
\* what the first left, and together they use all of the available capital.
C1_Witness ==
    /\ opt_pc = "done"
    /\ Len(execution_plans) = 2
    /\ RLt(RZero, AvailableCapital(opt_pool_state))
    /\ RSum(PlanSizes(optimized_plans)) = AvailableCapital(opt_pool_state)
    /\ RLt(execution_plans[2].position_size,
           RMul(available_capital, Rat(sorted_strategies[2].position_size_pct, 100)))

\* C9 as stated: with available_capital = 1000 and two decisions of 60% each,
\* the first decision in priority order is assigned 600 and the second 400;
\* the second is never assigned 600.
C9_Original ==
    (opt_pc = "done" /\ TwoSixties) =>
        /\ Len(assigned) = 2
        /\ assigned[1].id = FirstByPriority
        /\ assigned[1].position_size = RInt(600)
        /\ assigned[2].position_size = RInt(400)

\* C9 amended: the first decision in priority order is assigned 600; the second
\* is assigned 400 when the first decision's plan was emitted, and 600 when
\* plan creation rejected the first decision (its capital was not consumed).
C9_SixtySixty ==
    (opt_pc = "done" /\ TwoSixties) =>
        /\ Len(assigned) = 2
        /\ assigned[1].id = FirstByPriority
        /\ assigned[1].position_size = RInt(600)
        /\ assigned[1].emitted => assigned[2].position_size = RInt(400)
        /\ ~assigned[1].emitted => assigned[2].position_size = RInt(600)

\* C9 witness: both plans were emitted, of 600 and of 400, the second decision
\* having the higher input position but the lower priority.
C9_Witness ==
    /\ opt_pc = "done"
    /\ TwoSixties
    /\ opt_strategies[1].execution_priority < opt_strategies[2].execution_priority
    /\ Len(execution_plans) = 2
    /\ execution_plans[1].strategy_id = 2
    /\ execution_plans[1].position_size = RInt(600)
    /\ execution_plans[2].position_size = RInt(400)

\* C10: for the order book [{price: 100, amount: 5}] the slippage estimate for
\* target size 3 is 0 and the estimate for target size 8 is strictly positive.
C10_SlippageExample ==
    (slip_pc = "done" /\ slip_orders = <<[price |-> 100, amount |-> 5]>>) =>
        /\ slip_size = 3 => slip_result = RZero
        /\ slip_size = 8 => RLt(RZero, slip_result)

\* ---- helpers of the claim about _combine_plans

\* the sum of a field over the plans, folded from the front
RECURSIVE FieldSum(_, _, _)
FieldSum(plans, i, acc) ==
    IF i > Len(plans) THEN acc ELSE FieldSum(plans, i + 1, RAdd(acc, plans[i].position_size))

\* C8: combining N >= 2 plans gives a plan whose position_size is the sum of
\* the inputs' position sizes and whose gas_cost is the largest of the inputs'
\* gas costs; combining a single plan returns that plan unchanged.
C8_CombineSumsSizesMaxGas ==
    comb_pc = "done" =>
        /\ Len(comb_plans) >= 2 =>
              /\ comb_result.position_size = FieldSum(comb_plans, 1, RZero)
              /\ \E i \in DOMAIN comb_plans : comb_result.gas_cost = comb_plans[i].gas_cost
              /\ \A i \in DOMAIN comb_plans : RLe(comb_plans[i].gas_cost, comb_result.gas_cost)
        /\ Len(comb_plans) = 1 => comb_result = comb_plans[1]

\* C8 witness: three plans of different sizes and gas costs were combined, the
\* largest gas cost not being the first plan's.
C8_Witness ==
    /\ comb_pc = "done"
    /\ Len(comb_plans) = 3
    /\ comb_plans[1].position_size # comb_plans[2].position_size
    /\ RLt(comb_plans[1].gas_cost, comb_plans[3].gas_cost)
    /\ comb_result.position_size = RInt(1300)
    /\ comb_result.gas_cost = comb_plans[3].gas_cost

\* C2: when the buy order of a plan answers without success, _execute_plan
\* returns success = FALSE with stage "buy", never sends a sell order for that
\* plan, and execute hands that result on.
C2_BuyFailureStopsPlan ==
    \A i \in DOMAIN exec_buy_result :
        (/\ exec_buy_result[i] # NoValue
         /\ exec_buy_result[i] # OrderRaised
         /\ DictGet(exec_buy_result[i], "success", FALSE) = FALSE) =>
            /\ exec_pc[i] = "done"
            /\ exec_task_result[i] # NoValue
            /\ exec_task_result[i].success = FALSE
            /\ exec_task_result[i].stage = "buy"
            /\ \A k \in DOMAIN exec_orders[i] : exec_orders[i][k].side # "sell"
            /\ exec_main_pc = "done" =>
                   \E k \in DOMAIN execution_results : execution_results[k] = exec_task_result[i]

\* C2 witness: of two plans executed together one had its buy order fail
\* after a partial fill and the other sold what it bought.
C2_Witness ==
    /\ exec_main_pc = "done"
    /\ Len(exec_plans) = 2
    /\ exec_buy_result[1] = [success |-> FALSE, error |-> "Order timed out",
                             price |-> RInt(101), filled_amount |-> RInt(2)]
    /\ exec_task_result[1].stage = "buy"
    /\ Len(exec_orders[1]) = 1
    /\ Len(exec_orders[2]) = 2
    /\ exec_task_result[2].success

\* C5: the overall_risk of every assessment assess_strategy returns, computed
\* or default, lies in [1, 10].
C5_OverallRiskInRange ==
    risk_pc = "done" =>
        /\ RLe(ROne, risk_assessment.overall_risk)
        /\ RLe(risk_assessment.overall_risk, Ten)

\* C6: in every assessment assess_strategy returns, the default one and the
\* LLM-enriched one included, proceed is true exactly when overall_risk is at
\* most the max_risk_threshold of the configuration the call read.
C6_ProceedIffWithinThreshold ==
    risk_pc = "done" =>
        (risk_assessment.proceed <=>
            RLe(risk_assessment.overall_risk, risk_read.max_risk_threshold))

\* C6 witness: an LLM-enriched assessment whose LLM recommends to reject while
\* the computed risk is within the threshold, so that it proceeds.
C6_Witness ==
    /\ risk_pc = "done"
    /\ risk_read.use_llm_for_risk = Attr(TRUE)
    /\ "llm_recommendation" \in DOMAIN risk_assessment
    /\ risk_assessment.llm_recommendation = "reject"
    /\ risk_assessment.proceed
    /\ risk_assessment.overall_risk # Five

\* C7: the list a call of detect_opportunities returns is non-increasing in
\* estimated_profit_pct, and every opportunity in it has estimated_profit_pct
\* of at least the min_profit_threshold of the configuration the call read.
C7_DetectedSortedAboveThreshold ==
    [][(det_pc = "call" /\ det_pc' = "done") =>
        /\ \A i, j \in DOMAIN det_opportunities' :
               i < j => RLe(det_opportunities'[j].estimated_profit_pct,
                            det_opportunities'[i].estimated_profit_pct)
        /\ \A i \in DOMAIN det_opportunities' :
               RLe(det_threshold, det_opportunities'[i].estimated_profit_pct)]_vars

\* C7 witness: three pairs are priced on two exchanges; one has a positive
\* profit below the threshold and is left out, the other two are returned with
\* the larger profit first.
C7_Witness ==
    /\ det_pc = "done"
    /\ det_threshold = Rat(1, 2)
    /\ det_exchange_data # <<>>
    /\ det_exchange_data[1].data =
           [pr \in Pairs |-> IF pr = "ETH/USDT" THEN 101 ELSE 100]
    /\ det_exchange_data[2].data =
           [pr \in Pairs |-> IF pr = "BTC/USDT" THEN 101 ELSE 103]
    /\ det_exchange_data[3].data = <<>>
    /\ Len(det_opportunities) = 2
    /\ det_opportunities[1].pair = "SOL/USDT"
    /\ det_opportunities[2].pair = "ETH/USDT"
    /\ RLt(det_opportunities[2].estimated_profit_pct, det_opportunities[1].estimated_profit_pct)


\* the node that ran last
RanLast(node) ==
    /\ graph_cycle.steps # <<>>
    /\ graph_cycle.steps[Len(graph_cycle.steps)].step = node

\* C3: whichever nodes fail, once Observe has run Reflect eventually runs,
\* and once Reflect has run Observe eventually runs.
C3_EveryCycleReflects ==
    /\ RanLast("observe") ~> RanLast("reflect")
    /\ RanLast("reflect") ~> RanLast("observe")

\* the current cycle: Detect returned no opportunities and no node has failed
ZeroOpportunityCycle ==
    /\ \E i \in DOMAIN graph_cycle.steps :
          /\ graph_cycle.steps[i].step = "detect_opportunities"
          /\ graph_cycle.steps[i].opportunities = 0
    /\ \A i \in DOMAIN graph_cycle.steps : ~graph_cycle.steps[i].raised

\* C4: when a cycle in which Detect returned no opportunities and no node
\* failed hands over to the next Observe, Reflect has run last, the
\* opportunities, decisions, plans and results are empty and the error list is
\* the one the cycle started with.
C4_ZeroOpportunityCycleReflects ==
    ("observe" \in graph_nodes /\ ZeroOpportunityCycle) =>
        /\ RanLast("reflect")
        /\ agent_state.opportunities = <<>>
        /\ agent_state.decisions = <<>>
        /\ no_execution_plan(agent_state)
        /\ agent_state.execution_results = <<>>
        /\ agent_state.errors = graph_cycle.errors_before

\* the step has ended and the next one has not begun
StepEnded == graph_step.ran = 0

\* C11: once Detect has run, the node that runs next is Observe when the
\* opportunity list is empty and Strategize otherwise, and Strategize is never
\* about to run on an empty opportunity list.
C11_DetectRoutesOnOpportunities ==
    /\ (RanLast("detect_opportunities") /\ StepEnded) =>
          graph_nodes = {IF agent_state.opportunities = <<>>
                         THEN "observe" ELSE "generate_strategy"}
    /\ "generate_strategy" \in graph_nodes => agent_state.opportunities # <<>>

\* some decision of the state carries a risk assessment with proceed = true
SomeDecisionProceeds ==
    \E i \in DOMAIN agent_state.decisions : decision_proceeds(agent_state.decisions[i])

\* C12: once AssessRisk has run, the node that runs next is Optimize when some
\* decision's assessment has proceed = true and Reflect otherwise; Optimize
\* and Execute have run in a cycle only if some decision proceeds.
C12_AssessRiskRoutesOnProceed ==
    /\ (RanLast("assess_risk") /\ StepEnded) =>
          graph_nodes = {IF SomeDecisionProceeds THEN "optimize_execution" ELSE "reflect"}
    /\ (RanLast("optimize_execution") \/ RanLast("execute")) => SomeDecisionProceeds

\* the history entry of the node that ran last
LastStep == graph_cycle.steps[Len(graph_cycle.steps)]

\* the field the node produces is, in the state the node returned, empty or
\* as it was in the state the node was given
OutputEmptyOrKept(node) ==
    CASE node = "observe" ->
            /\ graph_cycle'.returned.pool_state = agent_state.pool_state
            /\ graph_cycle'.returned.market_data = agent_state.market_data
      [] node = "detect_opportunities" ->
            graph_cycle'.returned.opportunities \in {<<>>, agent_state.opportunities}
      [] node \in {"generate_strategy", "assess_risk"} ->
            graph_cycle'.returned.decisions \in {<<>>, agent_state.decisions}
      [] node = "optimize_execution" ->
            graph_cycle'.returned.execution_plan \in {Attr(<<>>), agent_state.execution_plan}
      [] node = "execute" ->
            graph_cycle'.returned.execution_results \in {<<>>, agent_state.execution_results}
      [] node = "reflect" ->
            graph_cycle'.returned.reflection = agent_state.reflection

\* the node that returns in this transition is the only node of its step
AloneInItsStep == graph_step.ran = 0 /\ Cardinality(graph_nodes) = 1

\* C13: a node whose collaborator raised returns a state whose errors list is
\* the list it was given plus one entry with the node's stage name and the
\* message, and whose output field is empty or as it was given; that state
\* is the state of the graph when the node ran alone in its step.
C13_NodeFailureIsRecorded ==
    [][(graph_cycle' # graph_cycle /\ LastStep'.raised) =>
          /\ LastStep'.step \in graph_nodes
          /\ graph_cycle'.returned.errors =
                Append(agent_state.errors, [step |-> LastStep'.step, error |-> ErrorMessage])
          /\ OutputEmptyOrKept(LastStep'.step)
          /\ AloneInItsStep => agent_state' = graph_cycle'.returned]_vars

\* C13 witness: optimize_execution has failed after an earlier failure of
\* observe; the list holds both entries in order and the plan is empty.
C13_Witness ==
    /\ RanLast("optimize_execution")
    /\ LastStep.raised
    /\ agent_state.errors = <<[step |-> "observe", error |-> ErrorMessage],
                              [step |-> "optimize_execution", error |-> ErrorMessage]>>
    /\ agent_state.execution_plan = Attr(<<>>)

\* C14: the state Reflect returns has empty opportunities, decisions,
\* execution_plan and execution_results, whether reflection succeeded or raised.
C14_ReflectClearsTransientState ==
    RanLast("reflect") =>
        /\ graph_cycle.returned.opportunities = <<>>
        /\ graph_cycle.returned.decisions = <<>>
        /\ graph_cycle.returned.execution_plan = Attr(<<>>)
        /\ graph_cycle.returned.execution_results = <<>>
        /\ (graph_nodes = {"observe"} /\ StepEnded) => agent_state = graph_cycle.returned

\* C14 witness: reflection raised at the end of a cycle that detected two
\* opportunities and ran Execute with them still in the state.
C14_Witness ==
    /\ RanLast("reflect")
    /\ LastStep.raised
    /\ Len(graph_cycle.steps) = 7
    /\ graph_cycle.steps[6] = [step |-> "execute", raised |-> FALSE, opportunities |-> 2]
    /\ agent_state.errors = <<[step |-> "reflect", error |-> ErrorMessage]>>

\* C15: at most one cycle is in flight; no cycle starts once stop has been
\* signalled during a cycle; and when the loop has exited after a stop
\* signalled during a cycle, that cycle has run to its end and its Reflect
\* step has run.
C15_StopLetsCycleFinish ==
    /\ mon_cycle.in_flight <= 1
    /\ ~mon_cycle.started_after_stop
    /\ (monitor_pc \in {"finally", "stopped"} /\ mon_cycle.stop_signalled) =>
          (mon_cycle.in_flight = 0 /\ mon_cycle.reflected)

\* C16: run_full_cycle never raises to its caller: whatever each stage gives,
\* a raising collaborator included, the call ends by returning a result dict
C16_RunFullCycleAlwaysReturns ==
    /\ cycle_pc # "raised"
    /\ cycle_pc = "returned" =>
          (cycle_result.kind = "return" /\ "success" \in DOMAIN cycle_result.value)

\* a call that ended through the handler: a stage handed None to the try block
C16_Witness ==
    /\ cycle_pc = "returned"
    /\ cycle_result.value = [success |-> FALSE, error |-> AttributeErrorMessage]

\* the keys of the assessment assess_strategy builds itself
OwnKeys == {"pool_impact_score", "liquidity_strain_index", "participant_risk",
            "exchange_failure_prob", "overall_risk", "proceed"}

\* the assessment task i computed, whatever the LLM added to it
OwnAssessment(i) ==
    IF assessment_raises(ras_read[i], ras_strategies[i])
    THEN default_assessment(ras_read[i])
    ELSE base_assessment(ras_read[i], ras_pool_state, ras_strategies[i])

\* C17: assess_strategies returns normally; a decision whose assessment could
\* not be computed gets the default assessment (overall_risk 5, proceed exactly
\* when the max_risk_threshold of the configuration its assessment read is
\* >= 5), and every other decision gets the assessment it gets when assessed
\* alone
C17_FailedAssessmentGetsDefault ==
    /\ ras_pc # "raised"
    /\ ras_pc = "done" =>
          /\ Len(ras_result) = Len(ras_strategies)
          /\ \A i \in 1..Len(ras_strategies) :
                IF assessment_raises(ras_read[i], ras_strategies[i])
                THEN /\ ras_result[i].overall_risk = RInt(5)
                     /\ ras_read[i].max_risk_threshold # Missing
                     /\ ras_result[i].proceed = RLe(RInt(5), ras_read[i].max_risk_threshold)
                ELSE \A k \in OwnKeys : ras_result[i][k] = OwnAssessment(i)[k]

\* C17 where self.config is a config object with a max_risk_threshold all along
C17_WithConfigObject ==
    [](ras_config # NoValue /\ ras_config.max_risk_threshold # Missing)
        => []C17_FailedAssessmentGetsDefault

\* ---- helpers of the claim about batching
SameGroup(p, q) ==
    p.buy_exchange = q.buy_exchange /\ p.sell_exchange = q.sell_exchange /\ p.pair = q.pair

\* the plans of the input that share the exchanges and pair of p, in input order
GroupOf(p) == SelectSeq(grp_plans, LAMBDA q : SameGroup(p, q))

IsCombined(p) == "combined_plan" \in DOMAIN p

\* C18: a combined plan of the output is made of exactly the input plans that
\* share its buy_exchange, sell_exchange and pair (two or more of them), and
\* the plans that are not combined are exactly the input plans alone in their
\* group, unchanged
C18_BatchingKeepsGroupsApart ==
    grp_pc = "done" =>
       /\ \A k \in DOMAIN grp_result :
             IF IsCombined(grp_result[k])
             THEN /\ Len(GroupOf(grp_result[k])) >= 2
                  /\ grp_result[k].combined_count = Len(GroupOf(grp_result[k]))
                  /\ grp_result[k].position_size =
                        RSum([i \in DOMAIN GroupOf(grp_result[k]) |->
                                 GroupOf(grp_result[k])[i].position_size])
                  /\ \A j \in DOMAIN grp_result :
                        (j # k /\ IsCombined(grp_result[j])) =>
                            ~SameGroup(grp_result[j], grp_result[k])
             ELSE GroupOf(grp_result[k]) = <<grp_result[k]>>
       /\ \A i \in DOMAIN grp_plans :
             Len(GroupOf(grp_plans[i])) = 1 =>
                \E k \in DOMAIN grp_result : grp_result[k] = grp_plans[i]

\* three plans: two of one group were combined, the third, which differs from
\* them in its pair only, passed unchanged
C18_Witness ==
    /\ grp_pc = "done"
    /\ Len(grp_plans) = 3
    /\ Len(grp_result) = 2
    /\ \E k \in DOMAIN grp_result : IsCombined(grp_result[k])
    /\ \E k \in DOMAIN grp_result :
          /\ ~IsCombined(grp_result[k])
          /\ \E j \in DOMAIN grp_result :
                /\ grp_result[j].buy_exchange = grp_result[k].buy_exchange
                /\ grp_result[j].sell_exchange = grp_result[k].sell_exchange
                /\ grp_result[j].pair # grp_result[k].pair

\* C19: when the sell order of a plan answers without success (its buy order
\* had succeeded, or no sell order would have been sent), the plan's result has
\* success = FALSE and stage "sell", and carries the answer of the buy order
C19_SellFailureCarriesBuyLeg ==
    \A i \in DOMAIN exec_sell_result :
        (/\ exec_sell_result[i] # NoValue
         /\ exec_sell_result[i] # OrderRaised
         /\ DictGet(exec_sell_result[i], "success", FALSE) = FALSE) =>
            /\ DictGet(exec_buy_result[i], "success", FALSE)
            /\ exec_pc[i] = "done"
            /\ exec_task_result[i].success = FALSE
            /\ exec_task_result[i].stage = "sell"
            /\ "buy_result" \in DOMAIN exec_task_result[i]
            /\ exec_task_result[i].buy_result = exec_buy_result[i]
            /\ exec_main_pc = "done" =>
                   \E k \in DOMAIN execution_results : execution_results[k] = exec_task_result[i]

\* a plan bought 5 units and its sell order timed out after a partial fill
C19_Witness ==
    /\ exec_main_pc = "done"
    /\ Len(exec_plans) >= 1
    /\ exec_buy_result[1] = [success |-> TRUE, price |-> RInt(101), filled_amount |-> RInt(5)]
    /\ exec_sell_result[1] = [success |-> FALSE, error |-> "Order timed out",
                              price |-> RInt(101), filled_amount |-> RInt(2)]
    /\ exec_task_result[1].stage = "sell"

\* C20: every decision generate_strategy returns, parsed from a response of the
\* LLM or built by the fallback table, has a position_size_pct greater than 0
\* and at most the configured max_position_size_pct
C20_PositionSizePctInRange ==
    gen_pc = "done" =>
        \A k \in DOMAIN gen_result :
            /\ RLt(RZero, gen_result[k].position_size_pct)
            /\ RLe(gen_result[k].position_size_pct, gen_config.max_position_size_pct)

\* C21: no reflect, whatever it suggests and however many cycles ran, changes
\* the configuration: the adjustments are in the reflection only
C21_ReflectLeavesConfigUnchanged == [][refl_count' # refl_count => refl_config' = refl_config]_vars

\* a second reflect has suggested a profit threshold other than the configured one
C21_Witness ==
    /\ refl_count = 2
    /\ \E i \in DOMAIN refl_reflection.strategy_adjustments :
          /\ refl_reflection.strategy_adjustments[i].parameter = "profit_threshold"
          /\ refl_reflection.strategy_adjustments[i].value # refl_config.min_profit_threshold

\* C22: is_initialized is false until the first initialize, true after every
\* initialize or reset that did not raise and false after every stop; an
\* initialize that follows an earlier one sets a later start_time
C22_LifecycleFlagAndStartTime ==
    /\ ~life_agent.llm_service => ~life_agent.is_initialized
    /\ life_last # NoValue =>
          /\ (life_last.op \in {"initialize", "reset"} /\ ~life_last.raised)
                => life_agent.is_initialized
          /\ life_last.op = "stop" => ~life_agent.is_initialized
          /\ (life_last.op \in {"initialize", "reset"} /\ ~life_last.raised
              /\ life_last.earlier_start_time # NoValue)
                => life_agent.start_time > life_last.earlier_start_time.value

\* an agent initialized, stopped and initialized again
C22_Witness ==
    /\ life_calls >= 3
    /\ life_last # NoValue
    /\ life_last.op = "initialize" /\ ~life_last.raised
    /\ life_last.earlier_start_time # NoValue
    /\ ~life_last.earlier_start_time.value = 0
    /\ life_agent.is_initialized

\* C23: the allocation walk visits the decisions in descending
\* execution_priority, and decisions of equal priority in their input order
C23_VisitedByPriorityThenInputOrder ==
    \A i \in DOMAIN assigned : \A j \in DOMAIN assigned :
        i < j =>
            \/ opt_strategies[assigned[i].id].execution_priority
                   > opt_strategies[assigned[j].id].execution_priority
            \/ /\ opt_strategies[assigned[i].id].execution_priority
                      = opt_strategies[assigned[j].id].execution_priority
               /\ assigned[i].id < assigned[j].id

\* two decisions of equal priority and different opportunities, both visited,
\* the one given first first
C23_Witness ==
    /\ Len(assigned) = 2
    /\ assigned[1].id = 1 /\ assigned[2].id = 2
    /\ opt_strategies[1].execution_priority = opt_strategies[2].execution_priority
    /\ opt_strategies[1].opportunity # opt_strategies[2].opportunity

\* the price a plan is built on: what get_market_details answered, or the
\* opportunity's own price when the answer has none
CurrentPrice(market_data, opportunity_price) ==
    IF market_data = EmptyDict THEN RInt(opportunity_price) ELSE RInt(market_data.price)

\* the plan _create_execution_plan returns for the decision the walk is at,
\* should the exchanges answer md
PlanFor(md) ==
    create_execution_plan(opt_config, sorted_strategies[opt_idx],
                          PositionSize(remaining_capital, available_capital,
                                       sorted_strategies[opt_idx]),
                          md[1], md[2])

\* the sell price is above the buy price, before and after slippage
StillProfitable(md) ==
    LET strategy == sorted_strategies[opt_idx]
        position_size == PositionSize(remaining_capital, available_capital, strategy)
        buy == CurrentPrice(md[1], strategy.opportunity.buy_price)
        sell == CurrentPrice(md[2], strategy.opportunity.sell_price)
    IN  /\ RLt(buy, sell)
        /\ RLt(RMul(buy, RAdd(ROne, estimate_slippage(md[1], position_size))),
               RMul(sell, RSub(ROne, estimate_slippage(md[2], position_size))))

\* C24: every plan emitted has sell_price > buy_price and effective_sell_price
\* > effective_buy_price, and a decision for which either fails gets no plan
C24_EmittedPlansAreProfitable ==
    /\ \A i \in DOMAIN execution_plans :
          /\ RLt(execution_plans[i].buy_price, execution_plans[i].sell_price)
          /\ RLt(execution_plans[i].effective_buy_price,
                 execution_plans[i].effective_sell_price)
    /\ (opt_pc = "loop" /\ opt_idx <= Len(sorted_strategies) /\ RLt(RZero, remaining_capital))
          => \A md \in MarketScenarios : ~StillProfitable(md) => PlanFor(md) = NoValue

\* a plan was emitted for the first decision, and the second faces answers
\* with the prices still apart whose slippage closes the gap
C24_Witness ==
    /\ opt_pc = "loop" /\ opt_idx = 2 /\ Len(sorted_strategies) = 2
    /\ Len(execution_plans) = 1
    /\ RLt(RZero, remaining_capital)
    /\ \E md \in MarketScenarios :
          /\ RLt(CurrentPrice(md[1], 0), CurrentPrice(md[2], 0))
          /\ ~StillProfitable(md)
          /\ PlanFor(md) = NoValue

\* the decision the walk is at, bought on another exchange
BoughtOn(exchange) ==
    [sorted_strategies[opt_idx] EXCEPT !.opportunity.buy_exchange = exchange]

\* the plan _create_execution_plan returns for a decision at the current
\* position size, should the exchanges answer md
PlanOf(strategy, md) ==
    create_execution_plan(opt_config, strategy,
                          PositionSize(remaining_capital, available_capital,
                                       sorted_strategies[opt_idx]),
                          md[1], md[2])

\* C25: expected_profit is revenue minus cost minus total gas with the fees of
\* the sell exchange and of the buy exchange applied, so that a higher
\* buy-exchange fee gives a lower expected_profit, and expected_profit_pct is
\* expected_profit / position_size * 100
C25_ProfitNetOfBothFees ==
    (/\ opt_pc = "loop" /\ opt_idx <= Len(sorted_strategies) /\ RLt(RZero, remaining_capital)
     /\ opt_config.exchange_fees # Missing)
    => /\ \A md \in MarketScenarios :
            LET plan == PlanFor(md)
                buy_fee_amount ==
                    RMul(plan.position_size,
                         RDiv(fee_of(opt_config.exchange_fees, plan.buy_exchange), Hundred))
            IN  plan # NoValue =>
                  /\ plan.expected_profit =
                         RSub(RSub(RSub(RMul(plan.sell_amount, plan.effective_sell_price),
                                        plan.position_size), buy_fee_amount), plan.gas_cost)
                  /\ plan.expected_profit_pct =
                         RMul(RDiv(plan.expected_profit, plan.position_size), Hundred)
       /\ \A md \in MarketScenarios : \A e1, e2 \in DOMAIN exchange_fees :
                (/\ RLt(fee_of(opt_config.exchange_fees, e1), fee_of(opt_config.exchange_fees, e2))
                 /\ PlanOf(BoughtOn(e1), md) # NoValue
                 /\ PlanOf(BoughtOn(e2), md) # NoValue
                 /\ PlanOf(BoughtOn(e1), md).gas_cost = PlanOf(BoughtOn(e2), md).gas_cost)
                => RLt(PlanOf(BoughtOn(e2), md).expected_profit,
                       PlanOf(BoughtOn(e1), md).expected_profit)

\* the positions of the plans with positive position_size and buy_amount
ValidPlans == {i \in DOMAIN exec_plans : ~plan_is_invalid(exec_plans[i])}

\* how many valid plans stand at or before position i
ValidUpTo(i) == Cardinality({j \in ValidPlans : j <= i})

\* the profit of the two fills of task i under the fees of the configuration
\* task i read: revenue less cost, less the fee of each leg, less the gas
OwnProfit(i) ==
    LET plan == exec_plans[i]
        buy_cost == RMul(DictGet(exec_buy_result[i], "price", plan.buy_price),
                         DictGet(exec_buy_result[i], "filled_amount", RZero))
        sell_revenue == RMul(DictGet(exec_sell_result[i], "price", plan.sell_price),
                             DictGet(exec_sell_result[i], "filled_amount", RZero))
    IN  RSub(RSub(RSub(RSub(sell_revenue, buy_cost),
                       RMul(buy_cost, RDiv(fee_of(exec_read[i].exchange_fees, plan.buy_exchange),
                                           Hundred))),
                  RMul(sell_revenue, RDiv(fee_of(exec_read[i].exchange_fees, plan.sell_exchange),
                                          Hundred))),
             plan.gas_cost)

\* the result of task i is the one its own plan, the answers to its own two
\* orders and the configuration in place when its own sell order answered
\* decide
DecidedByItsOwn(i) ==
    LET plan == exec_plans[i]
        bought == exec_buy_result[i]
        sold == exec_sell_result[i]
        result == exec_task_result[i]
        stage == DictGet(result, "stage", "none")
    IN  IF plan_is_invalid(plan) THEN result = NoValue /\ bought = NoValue
        ELSE /\ result # NoValue
             /\ result.plan = plan
             /\ IF bought = OrderRaised THEN stage = "unknown" /\ sold = NoValue
                ELSE IF \/ ~DictGet(bought, "success", FALSE)
                        \/ RLe(DictGet(bought, "filled_amount", RZero), RZero)
                THEN stage = "buy" /\ sold = NoValue
                ELSE IF sold = OrderRaised THEN stage = "unknown"
                ELSE IF ~DictGet(sold, "success", FALSE)
                THEN stage = "sell" /\ DictGet(result, "buy_result", NoValue) = bought
                ELSE IF exec_read[i].exchange_fees = Missing THEN stage = "unknown"
                ELSE /\ result.success
                     /\ result.buy_result.amount = bought.filled_amount
                     /\ result.sell_result.amount = DictGet(sold, "filled_amount", RZero)
                     /\ result.actual_profit = OwnProfit(i)

\* C26: under every interleaving of the tasks, and of update_config with
\* them, a plan's sell order is sent only after its own buy order has
\* answered, for the amount that buy filled; what a plan's task returns is
\* decided by its own plan, its own orders' answers and the configuration in
\* place when its own sell order answered; and execute returns the results in
\* the order of the plans, whatever the order the tasks returned in
C26_TasksAreIndependent ==
    /\ \A i \in DOMAIN exec_pc :
          /\ \A k \in DOMAIN exec_orders[i] :
                exec_orders[i][k].side = "sell" =>
                    /\ k = 2 /\ exec_orders[i][1].side = "buy"
                    /\ exec_buy_result[i] # NoValue
                    /\ exec_orders[i][k].amount = filled_amount(exec_buy_result[i])
          /\ exec_pc[i] = "done" => DecidedByItsOwn(i)
          /\ exec_pc[i] # "done" => exec_task_result[i] = NoValue
    /\ (exec_main_pc = "done" /\ exec_plans # <<>>) =>
          /\ Len(execution_results) = Cardinality(ValidPlans)
          /\ \A i \in ValidPlans : execution_results[ValidUpTo(i)] = exec_task_result[i]

\* the second plan traded both legs while the first plan's buy order was
\* still awaited; the fees were replaced before the first plan sold, and each
\* result is priced with the fees its own task read
C26_Witness ==
    /\ Len(exec_plans) = 2
    /\ exec_main_pc = "done"
    /\ exec_finished = <<2, 1>>
    /\ exec_read[2] = DefaultOptimizerConfig
    /\ exec_read[1] # NoValue /\ exec_read[1].exchange_fees = OtherExchangeFees
    /\ execution_results[1].success /\ execution_results[2].success
    /\ execution_results[1].plan = exec_plans[1]

\* how far the fill lies on the wrong side of the price the plan asked for
RealizedSlippage(call, result) ==
    IF call.side = "buy"
    THEN RDiv(RSub(result.executed_price, call.price), call.price)
    ELSE RDiv(RSub(call.price, result.executed_price), call.price)

\* C27: a leg whose realized slippage exceeds max_slippage, or that takes
\* longer than timeout_seconds, is reported as failed
C27_SlippageOrTimeoutFailsLeg ==
    (ord_pc = "done" /\ ord_result.success) =>
        /\ ord_elapsed <= ord_call.timeout_seconds
        /\ RLt(RZero, ord_call.price) =>
              RLe(RealizedSlippage(ord_call, ord_result), ord_call.max_slippage)

\* the reserve left once the expected withdrawals are taken out is not positive
NoEffectiveReserve(pool_state) ==
    \/ pool_state.liquidity_reserve <= 0
    \/ /\ pool_state.withdrawal_forecast # Missing
       /\ pool_state.liquidity_reserve
              - DictGet(pool_state.withdrawal_forecast, "expected", 0) <= 0

\* C28: in every assessment the four sub-scores lie in their ranges,
\* pool_impact_score and participant_risk in [1, 10], liquidity_strain_index
\* and exchange_failure_prob in [0, 1]; an empty pool gives pool_impact_score
\* 10 and no effective reserve gives liquidity_strain_index 1
C28_SubScoresInRange ==
    risk_pc = "done" =>
        /\ RLe(ROne, risk_assessment.pool_impact_score)
        /\ RLe(risk_assessment.pool_impact_score, Ten)
        /\ RLe(RZero, risk_assessment.liquidity_strain_index)
        /\ RLe(risk_assessment.liquidity_strain_index, ROne)
        /\ RLe(ROne, risk_assessment.participant_risk)
        /\ RLe(risk_assessment.participant_risk, Ten)
        /\ RLe(RZero, risk_assessment.exchange_failure_prob)
        /\ RLe(risk_assessment.exchange_failure_prob, ROne)
        /\ (risk_pc = "done" /\ risk_read.use_llm_for_risk # Missing) =>
              /\ risk_pool_state.total_value <= 0
                    => risk_assessment.pool_impact_score = Ten
              /\ (risk_pool_state.withdrawal_forecast # NoValue
                  /\ NoEffectiveReserve(risk_pool_state))
                    => risk_assessment.liquidity_strain_index = ROne

\* the claim without the lower end of participant_risk: everything else holds
C28_AllButParticipantFloor ==
    risk_pc = "done" =>
        /\ RLe(ROne, risk_assessment.pool_impact_score)
        /\ RLe(risk_assessment.pool_impact_score, Ten)
        /\ RLe(RZero, risk_assessment.liquidity_strain_index)
        /\ RLe(risk_assessment.liquidity_strain_index, ROne)
        /\ RLe(risk_assessment.participant_risk, Ten)
        /\ RLe(RZero, risk_assessment.exchange_failure_prob)
        /\ RLe(risk_assessment.exchange_failure_prob, ROne)
        /\ (risk_pc = "done" /\ risk_read.use_llm_for_risk # Missing) =>
              /\ risk_pool_state.total_value <= 0
                    => risk_assessment.pool_impact_score = Ten
              /\ (risk_pool_state.withdrawal_forecast # NoValue
                  /\ NoEffectiveReserve(risk_pool_state))
                    => risk_assessment.liquidity_strain_index = ROne

\* the place of a pair name in lexical order
PairRank(pair) ==
    CASE pair = "BTC/USDT" -> 1
      [] pair = "ETH/USDT" -> 2
      [] pair = "SOL/USDT" -> 3

\* C29: in the Detector's output, opportunities of equal estimated_profit_pct
\* appear in the lexical order of their pair names
C29_TiesInLexicalPairOrder ==
    det_pc = "done" =>
        \A i, j \in DOMAIN det_opportunities :
            (/\ i < j
             /\ det_opportunities[i].estimated_profit_pct
                    = det_opportunities[j].estimated_profit_pct)
            => PairRank(det_opportunities[i].pair) < PairRank(det_opportunities[j].pair)

\* the row of the rule table a pool of this total value falls in
FallbackRow(total_value) ==
    IF total_value < 10000 THEN "conservative"
    ELSE IF total_value < 100000 THEN "moderate" ELSE "aggressive"

\* the row a decision's settings belong to ("none" when they match no row)
RowOf(strategy) ==
    LET settings == <<strategy.position_size_pct, strategy.risk_score,
                      strategy.execution_priority, strategy.expected_slippage,
                      strategy.gas_settings, strategy.circuit_breakers.max_slippage,
                      strategy.circuit_breakers.timeout_seconds>>
    IN  IF settings = <<Rat(1, 2), 3, 3, Rat(2, 10), "medium", Rat(1, 2), 15>>
        THEN "conservative"
        ELSE IF settings = <<ROne, 5, 5, Rat(15, 100), "medium", Rat(3, 4), 20>>
        THEN "moderate"
        ELSE IF settings = <<RInt(2), 7, 7, Rat(1, 10), "high", ROne, 30>>
        THEN "aggressive"
        ELSE "none"

\* C30: while fallback mode is on, generate_strategy returns one decision per
\* opportunity, in the order of the opportunities, each with the settings of
\* the row its pool's total_value falls in: conservative below 10000,
\* moderate from 10000 to below 100000, aggressive from 100000 on
C30_FallbackOnePerOpportunityByBracket ==
    (gen_pc = "done" /\ gen_fallback = "active" /\ gen_opportunities # <<>>) =>
        /\ Len(gen_result) = Len(gen_opportunities)
        /\ \A i \in DOMAIN gen_result :
            /\ gen_result[i].opportunity = gen_opportunities[i]
            /\ gen_result[i].fallback
            /\ RowOf(gen_result[i]) = FallbackRow(gen_pool_state.total_value)

\* two different opportunities answered from the table for a pool worth
\* exactly 10000 (moderate row), and the call has returned
C30_Witness ==
    /\ gen_pc = "done"
    /\ gen_fallback = "active"
    /\ gen_opportunities = <<OppB, OppA>>
    /\ gen_pool_state.total_value = 10000
    /\ Len(gen_result) = 2
    /\ gen_result[1].opportunity = OppB
    /\ gen_result[2].opportunity = OppA
    /\ RowOf(gen_result[1]) = "moderate"

\* a reflection on a non-empty list of execution results
Reflected == refl_reflection # NoValue /\ "trade_analysis" \in DOMAIN refl_reflection

\* how many adjustments of the reflection carry this parameter and direction
Suggested(parameter, adjustment) ==
    Cardinality({i \in DOMAIN refl_reflection.strategy_adjustments :
        /\ refl_reflection.strategy_adjustments[i].parameter = parameter
        /\ refl_reflection.strategy_adjustments[i].adjustment = adjustment})

\* the adjustments are exactly those the four rules give on the analysis of
\* the reflection, and the counts of the analysis add up
AdjustmentsFollow ==
    LET analysis == refl_reflection.trade_analysis
        OnceIff(parameter, adjustment, condition) ==
            Suggested(parameter, adjustment) = (IF condition THEN 1 ELSE 0)
    IN  /\ OnceIff("slippage_estimate", "increase",
                   \/ RLt(RZero, analysis.avg_buy_slippage)
                   \/ RLt(RZero, analysis.avg_sell_slippage))
        /\ OnceIff("profit_threshold", "increase",
                   RLt(analysis.profit_accuracy, Rat(9, 10)))
        /\ OnceIff("timeout_seconds", "increase",
                   RLt(RInt(10), analysis.avg_execution_time))
        /\ OnceIff("risk_threshold", "decrease",
                   RLt(analysis.success_rate, Rat(8, 10)))
        /\ Len(refl_reflection.strategy_adjustments)
               = Suggested("slippage_estimate", "increase")
                 + Suggested("profit_threshold", "increase")
                 + Suggested("timeout_seconds", "increase")
                 + Suggested("risk_threshold", "decrease")
        /\ analysis.successful_trades + analysis.failed_trades = analysis.total_trades
        /\ analysis.total_trades > 0

\* C31: for a non-empty list of execution results the adjustments hold a
\* slippage_estimate increase exactly when the mean buy or sell slippage is
\* above 0, a profit_threshold increase exactly when profit_accuracy < 0.9, a
\* timeout_seconds increase exactly when the mean execution time is above 10
\* seconds and a risk_threshold decrease exactly when success_rate < 0.8, and
\* nothing else; successful_trades + failed_trades = total_trades
C31_AdjustmentsFollowAnalysis == Reflected => AdjustmentsFollow

\* what holds whatever object update_config has put in place: the list is the
\* one the four rules give, or it is empty, and it is empty against the rules
\* only when a threshold rule fired
C31_RulesOrNothing ==
    Reflected =>
        \/ AdjustmentsFollow
        \/ /\ refl_reflection.strategy_adjustments = <<>>
           /\ \/ RLt(refl_reflection.trade_analysis.profit_accuracy, Rat(9, 10))
              \/ RLt(refl_reflection.trade_analysis.success_rate, Rat(8, 10))
           /\ refl_reflection.trade_analysis.successful_trades
                  + refl_reflection.trade_analysis.failed_trades
                  = refl_reflection.trade_analysis.total_trades

\* C32: in the allocation walk remaining_capital goes down only at a visit
\* that emits a plan, and then by that plan's position_size; a visit whose
\* plan creation is rejected or fails leaves it unchanged, so remaining_capital
\* is always available_capital less the sizes of the plans emitted so far
C32_CapitalHeldOnlyByEmittedPlans ==
    opt_pc \in {"loop", "done"} /\ opt_strategies # <<>> =>
        /\ remaining_capital = RSub(available_capital, RSum(EmittedSizes(assigned)))
        /\ RSum(EmittedSizes(assigned)) = RSum(PlanSizes(execution_plans))
        /\ Cardinality({i \in DOMAIN assigned : assigned[i].emitted}) = Len(execution_plans)

\* the first decision visited was sized 600 of 1000 and got no plan; the
\* second was then sized 600 too, more than the 400 the first would have left,
\* and its plan was emitted
C32_Witness ==
    /\ opt_pc = "done"
    /\ available_capital = RInt(1000)
    /\ Len(assigned) = 2
    /\ ~assigned[1].emitted
    /\ assigned[1].position_size = RInt(600)
    /\ assigned[2].emitted
    /\ assigned[2].position_size = RInt(600)
    /\ remaining_capital = RInt(400)

\* the decisions of the workflow state: the strategies handed to
\* assess_strategies, none of them carrying a risk_assessment yet
AssessedDecisions ==
    [i \in DOMAIN ras_strategies |->
        [k \in DOMAIN ras_strategies[i] \cup {"risk_assessment"} |->
            IF k = "risk_assessment" THEN Missing ELSE ras_strategies[i][k]]]

\* what _assess_risk_node returns for these decisions and the assessments
\* assess_strategies answered; {**decision, ...} raises on a decision that is None
AfterAssessRiskNode ==
    LET raised == \E i \in DOMAIN ras_strategies : ras_strategies[i] = NoValue
    IN  assess_risk_node([initial_state EXCEPT !.decisions =
                              IF raised THEN <<>> ELSE AssessedDecisions],
                         raised, ras_result)

\* C33: assess_strategies returns, also when assessments fail, and what it
\* returns has one assessment per decision, the i-th being the assessment of
\* the i-th decision (one default per decision when a task raised and the
\* except branch answered); when _assess_risk_node then succeeds its
\* decisions are the input decisions, in their order, each carrying its own
\* assessment as risk_assessment
C33_OneAssessmentPerDecisionInOrder ==
    /\ ras_pc # "raised"
    /\ ras_pc = "done" =>
          /\ Len(ras_result) = Len(ras_strategies)
          /\ \A i \in DOMAIN ras_strategies :
                /\ is_assessment(ras_result[i])
                /\ (\A j \in DOMAIN ras_tasks : ras_tasks[j] # TaskRaised) =>
                       \A k \in OwnKeys : ras_result[i][k] = OwnAssessment(i)[k]
          /\ AfterAssessRiskNode.errors = <<>> =>
                /\ Len(AfterAssessRiskNode.decisions) = Len(ras_strategies)
                /\ \A i \in DOMAIN ras_strategies :
                      /\ AfterAssessRiskNode.decisions[i].risk_assessment = ras_result[i]
                      /\ AfterAssessRiskNode.decisions[i].risk_assessment # Missing
                      /\ \A k \in DOMAIN ras_strategies[i] :
                            AfterAssessRiskNode.decisions[i][k] = ras_strategies[i][k]

\* C33 where self.config is a config object with a max_risk_threshold all along
C33_WithConfigObject ==
    [](ras_config # NoValue /\ ras_config.max_risk_threshold # Missing)
        => []C33_OneAssessmentPerDecisionInOrder

\* the buy order of task i was answered with success and a fill that is zero
\* or not in the answer
BoughtNothing(i) ==
    /\ exec_buy_result[i] # NoValue
    /\ exec_buy_result[i] # OrderRaised
    /\ DictGet(exec_buy_result[i], "success", FALSE)
    /\ \/ "filled_amount" \notin DOMAIN exec_buy_result[i]
       \/ exec_buy_result[i].filled_amount = RZero

\* C34: when the buy order of a plan answers success = TRUE with a filled
\* amount of zero, or without a filled amount, _execute_plan returns
\* success = FALSE with stage "buy" and sends no sell order for that plan
C34_EmptyFillFailsAtBuy ==
    \A i \in DOMAIN exec_buy_result :
        BoughtNothing(i) =>
            /\ exec_pc[i] = "done"
            /\ exec_task_result[i] =
                   failed_result(exec_plans[i], "buy", "Buy order filled with zero amount")
            /\ exec_orders[i] = <<buy_order(exec_plans[i])>>
            /\ exec_sell_result[i] = NoValue

\* a buy answered the way ExchangeClient.execute_order answers on success
\* (executed_price and amount, no filled_amount), another answered with a fill
\* of zero: both plans ended at the buy stage
C34_Witness ==
    /\ exec_main_pc = "done"
    /\ Len(exec_plans) = 2
    /\ BoughtNothing(1) /\ "filled_amount" \notin DOMAIN exec_buy_result[1]
    /\ BoughtNothing(2) /\ "filled_amount" \in DOMAIN exec_buy_result[2]
    /\ Len(execution_results) = 2
    /\ execution_results[1].stage = "buy" /\ execution_results[2].stage = "buy"

\* an order of task i raised instead of answering
OrderRaisedIn(i) == exec_buy_result[i] = OrderRaised \/ exec_sell_result[i] = OrderRaised

\* task i read the fees from a self.config that is a dictionary: AttributeError
FeeReadRaisedIn(i) == exec_read[i] # NoValue /\ exec_read[i].exchange_fees = Missing

\* C35: a plan in whose execution an exception was raised (by an order, or by
\* the read of the fees) gets a failed result with stage "unknown" that
\* carries the plan and the message of the exception, and only such a plan
\* does; execute returns exactly one result per plan with positive
\* position_size and buy_amount, in the order of the plans, each the result
\* its own task returned
C35_ExceptionFailsOnlyItsPlan ==
    /\ \A i \in DOMAIN exec_pc :
          /\ OrderRaisedIn(i) =>
                /\ exec_pc[i] = "done"
                /\ exec_task_result[i] =
                       failed_result(exec_plans[i], "unknown", OrderRaised.raised)
          /\ FeeReadRaisedIn(i) =>
                /\ exec_pc[i] = "done"
                /\ exec_task_result[i] =
                       failed_result(exec_plans[i], "unknown", FeesAttributeError)
          /\ (exec_task_result[i] # NoValue /\ ~OrderRaisedIn(i) /\ ~FeeReadRaisedIn(i)) =>
                DictGet(exec_task_result[i], "stage", "none") # "unknown"
    /\ (exec_main_pc = "done" /\ exec_plans # <<>>) =>
          /\ Len(execution_results) = Cardinality(ValidPlans)
          /\ \A i \in ValidPlans :
                /\ execution_results[ValidUpTo(i)] = exec_task_result[i]
                /\ execution_results[ValidUpTo(i)].plan = exec_plans[i]

\* of two plans executed together the second had traded both legs when a
\* dictionary became self.config; the first, whose orders both succeeded
\* too, met the AttributeError at the read of the fees
C35_Witness ==
    /\ exec_main_pc = "done"
    /\ Len(exec_plans) = 2
    /\ FeeReadRaisedIn(1)
    /\ order_succeeded(exec_sell_result[1])
    /\ Len(execution_results) = 2
    /\ execution_results[1].stage = "unknown"
    /\ execution_results[2].success

\* errors is the list it was, or that list with entries appended
ErrorsExtended(before, after) ==
    /\ Len(before) <= Len(after)
    /\ \A i \in DOMAIN before : after[i] = before[i]

\* C36: from one node to the next, through Reflect and into the cycles that
\* follow, the errors list only grows by appending: every step leaves the
\* entries it found in place and in order, and adds at most one at the end
C36_ErrorsOnlyAppended ==
    [][/\ ErrorsExtended(agent_state.errors, agent_state'.errors)
       /\ Len(agent_state'.errors) <= Len(agent_state.errors) + 1
       /\ graph_cycle' # graph_cycle =>
             /\ ErrorsExtended(agent_state.errors, graph_cycle'.returned.errors)
             /\ Len(graph_cycle'.returned.errors) <= Len(agent_state.errors) + 1]_vars

\* a cycle that began with an error already in the list, recorded before the
\* Reflect of an earlier cycle, has added a second one behind it
C36_Witness ==
    /\ graph_cycle.errors_before = <<[step |-> "execute", error |-> ErrorMessage]>>
    /\ agent_state.errors = <<[step |-> "execute", error |-> ErrorMessage],
                              [step |-> "observe", error |-> ErrorMessage]>>

\* call k was made after an error had activated the fallback and before the
\* deadline that activation set: within the configured duration of the
\* error, or, whatever the duration is, at the very clock reading of the error
BeforeDeadline(k) ==
    /\ fb_log[k].after # NoValue
    /\ IF fb_config.fallback_duration = Missing
       THEN fb_log[k].at = fb_log[k].after.value
       ELSE fb_log[k].at < fb_log[k].after.value + fb_config.fallback_duration.value

\* call k was made at or after that deadline
AtOrAfterDeadline(k) ==
    /\ fb_log[k].after # NoValue
    /\ fb_config.fallback_duration # Missing
    /\ fb_log[k].at >= fb_log[k].after.value + fb_config.fallback_duration.value

\* C37: after an error in generate_strategy has activated the fallback, every
\* call made before the fallback deadline builds its decisions from the rule
\* table without asking the collaborator, and a call made at or after the
\* deadline clears the fallback flag and asks the collaborator again
C37_FallbackHeldUntilDeadline ==
    \A k \in DOMAIN fb_log :
        /\ BeforeDeadline(k) => (fb_log[k].built_by = "table" /\ ~fb_log[k].error)
        /\ AtOrAfterDeadline(k) =>
              /\ fb_log[k].built_by = "collaborator" \/ fb_log[k].error
              /\ ~fb_log[k].checked

\* C37 where the config object carries a fallback_duration all along
C37_WithConfiguredDuration ==
    [](fb_config.fallback_duration # Missing) => []C37_FallbackHeldUntilDeadline

\* the positions in flow_calls of the calls of one step
CallsOf(call) == {k \in DOMAIN flow_calls : flow_calls[k].call = call}

RetriedSteps == {"analyze_market", "generate_arbitrage_strategy", "execute_arbitrage_trade"}

\* C38: market analysis, strategy generation and trade execution are each
\* attempted at most 3 times, and not again after an attempt that succeeded;
\* when the third attempt of one of them has failed the cycle has ended and
\* no call follows it: no fund request, no trade, no saving
C38_ThreeAttemptsThenEnd ==
    \A step \in RetriedSteps :
        /\ Cardinality(CallsOf(step)) <= 3
        /\ \A k \in CallsOf(step) :
              flow_calls[k].ok => \A j \in CallsOf(step) : j <= k
        /\ (Cardinality(CallsOf(step)) = 3 /\ \A k \in CallsOf(step) : ~flow_calls[k].ok) =>
              /\ flow_pc = "ended"
              /\ flow_calls[Len(flow_calls)].call = step

\* the trade failed three times after the analysis had succeeded at its
\* third attempt: the cycle has ended without saving
C38_Witness ==
    /\ flow_pc = "ended"
    /\ Cardinality(CallsOf("analyze_market")) = 3
    /\ flow_calls[3].ok
    /\ Cardinality(CallsOf("execute_arbitrage_trade")) = 3
    /\ \A k \in CallsOf("execute_arbitrage_trade") : ~flow_calls[k].ok
    /\ CallsOf("request_funds") # {}
    /\ CallsOf("insert_strategy_and_result") = {}

\* C39: every trade execution comes after a fund request that was approved,
\* with an approved amount above 0 and a risk recommendation other than
\* "abort"; and no fund request asks for more than
\* available_stx * max_trade_size_percent / 100
C39_TradeOnlyWithApprovedFunds ==
    /\ \A k \in CallsOf("execute_arbitrage_trade") :
          /\ \E j \in CallsOf("request_funds") : j < k /\ flow_calls[j].ok
          /\ flow_locals.fund_request_success
          /\ RLt(RZero, flow_locals.approved_amount)
          /\ flow_calls[k].amount = flow_locals.approved_amount
          /\ DictGet(flow_locals.risk_data, "recommendation", "none") # "abort"
    /\ \A j \in CallsOf("request_funds") :
          flow_calls[j].amount.n * 100
              <= flow_in.available_stx * flow_in.max_trade_size_percent * flow_calls[j].amount.d

\* a trade went out with the 80 that were approved, after a request cut from
\* 220 to the 100 the pool allows, on the default verdict of a risk
\* assessment that failed three times
C39_Witness ==
    /\ CallsOf("execute_arbitrage_trade") # {}
    /\ Cardinality(CallsOf("assess_risk")) = 3
    /\ \A k \in CallsOf("assess_risk") : ~flow_calls[k].ok
    /\ flow_locals.best_opportunity.required_amount = RInt(200)
    /\ flow_locals.required_amount = RInt(100)
    /\ flow_locals.approved_amount = RInt(80)

\* ---- helpers of the claim about the rate limiter

Apart(i, j) ==
    IF rl_released[i].at >= rl_released[j].at THEN rl_released[i].at - rl_released[j].at
    ELSE rl_released[j].at - rl_released[i].at

\* C40: under any interleaving of the callers, two requests to the exchange
\* are never released less than 1/rate_limit seconds apart
C40_ReleasesSpaced ==
    \A i, j \in DOMAIN rl_released :
        i # j => Apart(i, j) >= min_time_between_requests(rl_exchange)

\* what the sleep does give: a call returns no earlier than one gap after
\* the last request it read on entry
C40_SpacedFromTheRequestRead ==
    \A i \in DOMAIN rl_released :
        rl_released[i].at - rl_released[i].seen >= min_time_between_requests(rl_exchange)

=============================================================================
